---- MODULE Spec2Model ----
(***************************************************************************)
(* Tongy-Agent: the orchestration loop (tongy_agent/agent.py), the sandbox *)
(* policy engine (tongy_agent/sandbox.py), the tools the CLI registers     *)
(* (tongy_agent/tools), the retry wrapper (tongy_agent/retry.py) and the   *)
(* repository memory (tongy_agent/memory.py) as state machines.            *)
(*                                                                         *)
(* Spec         the agent loop: add_user_message / run() split at its      *)
(*              await points, driven by a nondeterministic model client,   *)
(*              tools and confirmation prompt.                             *)
(* FairSpec     Spec with weak fairness on the steps of a started run().   *)
(* SpecCancel   Spec plus task cancellation delivered at an await point.   *)
(* SpecSandbox  construction of a Sandbox, configure_from_workspace and    *)
(*              the path / command / size queries.                         *)
(* SpecTools    the file tools, bash and TodoWrite called on a sandbox     *)
(*              the CLI configured: write / edit / read on one target,     *)
(*              and TodoWrite calls on the task list.                      *)
(* SpecRetry    async_retry around a failing operation, and get_delay.     *)
(* SpecMemory   one RepositoryMemory instance, its JSON file as a reader   *)
(*              finds it while _save writes it, and process restarts.      *)
(* SpecHistory  Spec plus add_system_message between runs.                 *)
(***************************************************************************)
EXTENDS Integers, Sequences, FiniteSets, TLC

VARIABLES
    \* ---- Agent (agent.py) ----
    messages,      \* Agent.messages
    skip,          \* Agent._skip_next_token_check
    max_steps,     \* Agent.max_steps
    interactive,   \* Agent.interactive
    token_limit,   \* Agent.token_limit
    tools,         \* Agent.tools: the names of the registered tools
    pc,            \* where run() stands: "idle" (not running) or a point of the loop
    step,          \* local `step` of run()
    pending,       \* the tool_calls handed to _execute_tools
    idx,           \* position of the for loop of _execute_tools in `pending`
    result,        \* how the last run() ended: [via, value]
    proc,          \* subprocess of the bash tool: "none" | "running"
    \* ---- observation of the run in progress ----
    nextId,        \* next fresh tool-call id the model client hands out
    runs,          \* run() calls started
    userMsgs,      \* add_user_message calls made
    mainCalls,     \* main-loop model calls completed in this run
    toolRounds,    \* _execute_tools invocations started in this run
    execLog,       \* ids of the tool calls dispatched in this step, in dispatch order
    deviated,      \* the model failed or answered without tools, or the gate refused
    lastEvent,     \* the last step taken (for the prompt: its outcome)
    sinceSummary,  \* main model calls made since the last successful summarization, capped
    \* ---- Sandbox (sandbox.py) ----
    sb_config,     \* Sandbox.config: allowed_paths, forbidden_paths, allowed/forbidden_commands
    sb_allowed,    \* FileSandbox.allowed_paths (resolved)
    sb_forbidden,  \* FileSandbox.forbidden_paths (resolved)
    sb_commands,   \* CommandSandbox.allowed_commands / forbidden_commands
    sb_phase,      \* "new" before construction, "ready" after
    sb_workspace,  \* the workspaces configure_from_workspace was called with
    sb_query,      \* the last query and its verdict
    \* ---- Tools (tools/file_tools.py, tools/bash_tool.py, tools/todo_tool.py) ----
    tl_phase,      \* which tool scenario is under way
    tl_target,     \* the `path` argument the file tools are called with
    tl_file,       \* what the file system holds at the resolved target: [kind, content]
    tl_calls,      \* the tool calls made: arguments, result, file-system effects, sandbox checks
    td_todos,      \* TodoWriteTool.todos: a list of references to dict objects
    td_heap,       \* the dict objects the list refers to
    td_file,       \* <workspace>/.tongy_todos.json: [exists, todos]
    \* ---- Retry (retry.py, schema/schema.py RetryConfig) ----
    rt_config,     \* the RetryConfig the wrapper was built with
    rt_pc,         \* where the wrapper stands
    rt_attempt,    \* local `attempt` of the wrapper / argument of the get_delay query
    rt_log,        \* invocations of the wrapped operation and sleeps, in order
    rt_outcome,    \* how the wrapper ended
    rt_delay,      \* result of the get_delay query
    \* ---- Repository memory (memory.py) ----
    mem_memories,  \* RepositoryMemory.memories: categories in insertion order, each a list of items
    mem_file,      \* <repo>/.tongy_memory.json as a reader finds it
    mem_pc,        \* where the instance stands: "idle", or inside _save's write_text
    mem_last       \* the last call made on the instance and what it returned

agentVars == <<messages, skip, max_steps, interactive, token_limit, tools, pc, step, pending,
               idx, result, proc, nextId, runs, userMsgs, mainCalls, toolRounds,
               execLog, deviated, lastEvent, sinceSummary>>
sandboxVars == <<sb_config, sb_allowed, sb_forbidden, sb_commands, sb_phase, sb_workspace,
                 sb_query>>
toolVars == <<tl_phase, tl_target, tl_file, tl_calls, td_todos, td_heap, td_file>>
retryVars == <<rt_config, rt_pc, rt_attempt, rt_log, rt_outcome, rt_delay>>
memVars == <<mem_memories, mem_file, mem_pc, mem_last>>
vars == <<agentVars, sandboxVars, toolVars, retryVars, memVars>>

\* What no step of the agent changes: its constructor arguments, the sandbox, and the
\* tools' and the retry wrapper's own state.
config == <<sandboxVars, toolVars, retryVars, memVars, tools, max_steps, interactive,
           token_limit>>

----------------------------------------------------------------------------
\* Bounds of the model.
MaxSteps == 2        \* max_steps ranges over 0..MaxSteps
MaxCalls == 2        \* tool calls in one model response
MaxIds == 2          \* tool calls the model client requests in one behaviour
MaxRuns == 2         \* run() calls in one behaviour
SmallTokenLimit == 3 \* a token_limit small enough for the history to exceed
MaxDepth == 2        \* components of a queried path
MaxRoots == 2        \* entries of allowed_paths / forbidden_paths
MaxCmdLen == 3       \* characters of a command line
MaxWorkspaces == 1   \* configure_from_workspace calls in one behaviour
MaxFileSize == 2     \* max_file_size ranges over 0..MaxFileSize, file sizes one beyond

\* Program constants.
DefaultTokenLimit == 80000
BashDefaultTimeout == 120
DefaultMaxFileSize == 10485760

----------------------------------------------------------------------------
\* Messages, tool calls, tool results (schema.py).

NoId == 0
None == "<None>"

ToolCall(id, name) == [id |-> id, name |-> name]

Message(role, content, tool_calls, tool_call_id, name) ==
    [role |-> role, content |-> content, tool_calls |-> tool_calls,
     tool_call_id |-> tool_call_id, name |-> name]

ToolResult(success, content, error) ==
    [success |-> success, content |-> content, error |-> error]

\* The names a model client may ask for: the registered tools and one nobody registered.
ToolNames(registered) == registered \cup {"nope"}

SystemPrompt == "sys"
UserText == "hello!"
FinalText == "done"
SummaryText == "s"
SummaryHeader == "## Previous Conversation Summary\n\n"

\* LLMClientBase.estimate_tokens: len(content) // 3 summed over the messages.
RECURSIVE estimate_tokens(_)
estimate_tokens(ms) ==
    IF ms = <<>> THEN 0
    ELSE (Len(Head(ms).content) \div 3) + estimate_tokens(Tail(ms))

\* Agent._add_tool_result: the message appended for one tool call.
ToolResultMessage(tool_call, res) ==
    Message("tool",
            IF res.success THEN res.content ELSE "Error: " \o res.error,
            <<>>, tool_call.id, tool_call.name)

\* Mutant of SummarizedHistory: `recent_messages = self.messages[-1:]`.
SummarizedHistoryKeepsOne(ms, summary) ==
    <<ms[1], Message("system", SummaryHeader \o summary, <<>>, NoId, "")>>
        \o SubSeq(ms, Len(ms), Len(ms))

\* Mutant of SummarizedHistory: `system_msg` left out of the rebuilt list.
SummarizedHistoryDropsSystem(ms, summary) ==
    <<Message("system", SummaryHeader \o summary, <<>>, NoId, "")>>
        \o SubSeq(ms, Len(ms) - 1, Len(ms))

\* Agent._summarize_messages, the rebuilt list: first message, the summary, last two.
SummarizedHistory(ms, summary) ==
    <<ms[1], Message("system", SummaryHeader \o summary, <<>>, NoId, "")>>
        \o SubSeq(ms, Len(ms) - 1, Len(ms))

NoResult == [via |-> "none", value |-> ""]
Returned(via, value) == [via |-> via, value |-> value]

StepLimitNotice(n) == "Task not completed after " \o ToString(n) \o " steps"
CancelNotice == "Operation cancelled by user."
LLMFailure == "Error: LLM call failed - " \o "boom"

----------------------------------------------------------------------------
\* Agent.__init__

\* One more main model call since the last summary; 2 stands for "two or more, or no
\* summary yet".
MainCallCounted(n) == IF n < 2 THEN n + 1 ELSE n

AgentInit(registered) ==
    /\ tools = registered
    /\ messages = <<Message("system", SystemPrompt, <<>>, NoId, "")>>
    /\ skip = FALSE
    /\ max_steps \in 0..MaxSteps
    /\ interactive \in BOOLEAN
    /\ token_limit \in {SmallTokenLimit, DefaultTokenLimit}
    /\ pc = "idle"
    /\ step = 0
    /\ pending = <<>>
    /\ idx = 0
    /\ result = NoResult
    /\ proc = "none"
    /\ nextId = 1
    /\ runs = 0
    /\ userMsgs = 0
    /\ mainCalls = 0
    /\ toolRounds = 0
    /\ execLog = <<>>
    /\ deviated = FALSE
    /\ lastEvent = "init"
    /\ sinceSummary = 2

SandboxIdle ==
    /\ sb_config = [allowed_paths |-> <<>>, forbidden_paths |-> <<>>,
                    allowed_commands |-> {}, forbidden_commands |-> {},
                    max_file_size |-> DefaultMaxFileSize]
    /\ sb_allowed = <<>>
    /\ sb_forbidden = <<>>
    /\ sb_commands = [allowed |-> {}, forbidden |-> {}]
    /\ sb_phase = "new"
    /\ sb_workspace = {}
    /\ sb_query = [kind |-> "none"]

\* No tool has been called.
ToolsIdle ==
    /\ tl_phase = "off"
    /\ tl_target = <<>>
    /\ tl_file = [kind |-> "absent", content |-> <<>>]
    /\ tl_calls = <<>>
    /\ td_todos = <<>>
    /\ td_heap = <<>>
    /\ td_file = [exists |-> FALSE, todos |-> <<>>]

\* No RepositoryMemory has been constructed.
MemoryIdle ==
    /\ mem_memories = <<>>
    /\ mem_file = [state |-> "absent", doc |-> <<>>]
    /\ mem_pc = "off"
    /\ mem_last = [op |-> "none"]

\* No retry wrapper has been built.
RetryIdle ==
    /\ rt_config = [enabled |-> TRUE, max_retries |-> 0, initial_exp |-> 0, base_exp |-> 0,
                    max_delay |-> 0]
    /\ rt_pc = "off"
    /\ rt_attempt = 0
    /\ rt_log = <<>>
    /\ rt_outcome = [kind |-> "none"]
    /\ rt_delay = [kind |-> "none"]

\* An agent constructed with one ordinary tool.
Init == AgentInit({"read_file"}) /\ SandboxIdle /\ ToolsIdle /\ RetryIdle /\ MemoryIdle

\* An agent constructed with the bash tool as well.
InitBash == AgentInit({"bash", "read_file"}) /\ SandboxIdle /\ ToolsIdle /\ RetryIdle /\ MemoryIdle

----------------------------------------------------------------------------
\* Agent.add_user_message

AddUserMessage ==
    /\ lastEvent' = "AddUserMessage"
    /\ pc = "idle"
    /\ userMsgs = runs               \* the caller submits one message, then calls run()
    /\ messages' = Append(messages, Message("user", UserText, <<>>, NoId, ""))
    /\ userMsgs' = userMsgs + 1
    /\ UNCHANGED <<config, sinceSummary, skip, pc, step, pending, idx, result, proc, nextId, runs, mainCalls,
                   toolRounds, execLog, deviated>>

\* Agent.run, entry: step = 0 and on to the head of the while loop.
StartRun ==
    /\ lastEvent' = "StartRun"
    /\ pc = "idle"
    /\ runs < MaxRuns
    /\ userMsgs = runs + 1
    /\ runs' = runs + 1
    /\ step' = 0
    /\ pc' = "loop"
    /\ result' = NoResult
    /\ mainCalls' = 0
    /\ toolRounds' = 0
    /\ execLog' = <<>>
    /\ deviated' = FALSE
    /\ UNCHANGED <<config, sinceSummary, messages, skip, pending, idx, proc, nextId, userMsgs>>

\* Mutant of LoopContinues: `while step <= self.max_steps`.
LoopContinuesOffByOne(s, limit) == s <= limit

\* Agent.run, the loop condition `while step < self.max_steps`.
LoopContinues(s, limit) == s < limit

\* Agent.run, the loop condition failing: the step-limit notice.
StepLimit ==
    /\ lastEvent' = "StepLimit"
    /\ pc = "loop"
    /\ ~LoopContinues(step, max_steps)
    /\ pc' = "idle"
    /\ result' = Returned("limit", StepLimitNotice(max_steps))
    /\ UNCHANGED <<config, sinceSummary, messages, skip, step, pending, idx, proc, nextId, runs, userMsgs,
                   mainCalls, toolRounds, execLog, deviated>>

\* Agent._maybe_summarize_messages: does the budget check ask for a summary?
NeedsSummary(ms, limit) == estimate_tokens(ms) > limit

\* Agent._summarize_messages, its early return: nothing to summarize.
TooShortToSummarize(ms) == Len(ms) <= 3

\* Agent.run, loop body up to its first await: _maybe_summarize_messages either
\* clears the skip flag, or starts the summary call, or falls through to _call_llm.
BudgetCheck ==
    /\ lastEvent' = "BudgetCheck"
    /\ pc = "loop"
    /\ LoopContinues(step, max_steps)
    /\ IF skip
         THEN /\ skip' = FALSE
              /\ pc' = "call_llm"
         ELSE /\ skip' = skip
              /\ pc' = IF NeedsSummary(messages, token_limit) /\ ~TooShortToSummarize(messages)
                         THEN "summarizing" ELSE "call_llm"
    /\ UNCHANGED <<config, sinceSummary, messages, step, pending, idx, result, proc, nextId, runs, userMsgs,
                   mainCalls, toolRounds, execLog, deviated>>

\* Mutant of SummaryReturns: `self._skip_next_token_check = True` left out.
SummaryReturnsFlagClear ==
    /\ lastEvent' = "SummaryReturns"
    /\ pc = "summarizing"
    /\ messages' = SummarizedHistory(messages, SummaryText)
    /\ skip' = FALSE
    /\ pc' = "call_llm"
    /\ sinceSummary' = 0
    /\ UNCHANGED <<config, step, pending, idx, result, proc, nextId, runs, userMsgs, mainCalls,
                   toolRounds, execLog, deviated>>

\* Agent._summarize_messages, the summary call returns.
SummaryReturns ==
    /\ lastEvent' = "SummaryReturns"
    /\ pc = "summarizing"
    /\ messages' = SummarizedHistory(messages, SummaryText)
    /\ skip' = TRUE
    /\ pc' = "call_llm"
    /\ sinceSummary' = 0
    /\ UNCHANGED <<config, step, pending, idx, result, proc, nextId, runs, userMsgs, mainCalls,
                   toolRounds, execLog, deviated>>

\* Mutant of SummaryFails: no try/except around the summary call, run() raises.
SummaryFailsPropagates ==
    /\ lastEvent' = "SummaryFails"
    /\ pc = "summarizing"
    /\ pc' = "idle"
    /\ result' = Returned("raise", "boom")
    /\ UNCHANGED <<config, sinceSummary, messages, skip, step, pending, idx, proc, nextId, runs,
                   userMsgs, mainCalls, toolRounds, execLog, deviated>>

\* Agent._summarize_messages, the summary call raises: logged, history kept.
SummaryFails ==
    /\ lastEvent' = "SummaryFails"
    /\ pc = "summarizing"
    /\ pc' = "call_llm"
    /\ UNCHANGED <<config, sinceSummary, messages, skip, step, pending, idx, result, proc, nextId, runs,
                   userMsgs, mainCalls, toolRounds, execLog, deviated>>

\* Agent._call_llm, what a response leaves in the history.
AfterResponse(ms, content, tool_calls) ==
    Append(ms, Message("assistant", content, tool_calls, NoId, ""))

\* Agent._call_llm returns a response with tool calls; run() enters _execute_tools.
LLMRespondsTools ==
    /\ lastEvent' = "LLMRespondsTools"
    /\ pc = "call_llm"
    /\ \E n \in 1..MaxCalls : \E names \in [1..n -> ToolNames(tools)] :
         /\ nextId + n - 1 <= MaxIds
         /\ LET tcs == [i \in 1..n |-> ToolCall(nextId + i - 1, names[i])]
            IN  /\ messages' = AfterResponse(messages, "", tcs)
                /\ pending' = tcs
         /\ nextId' = nextId + n
    /\ idx' = 1
    /\ pc' = "tools"
    /\ mainCalls' = mainCalls + 1
    /\ toolRounds' = toolRounds + 1
    /\ execLog' = <<>>
    /\ sinceSummary' = MainCallCounted(sinceSummary)
    /\ UNCHANGED <<config, skip, step, result, proc, runs, userMsgs, deviated>>

\* Agent._call_llm returns a response without tool calls; run() returns its content.
LLMRespondsFinal ==
    /\ lastEvent' = "LLMRespondsFinal"
    /\ pc = "call_llm"
    /\ messages' = AfterResponse(messages, FinalText, <<>>)
    /\ pc' = "idle"
    /\ result' = Returned("final", FinalText)
    /\ mainCalls' = mainCalls + 1
    /\ deviated' = TRUE
    /\ sinceSummary' = MainCallCounted(sinceSummary)
    /\ UNCHANGED <<config, skip, step, pending, idx, proc, nextId, runs, userMsgs, toolRounds,
                   execLog>>

\* Mutant of OnLLMFailure: no try/except around _call_llm, the exception leaves run().
OnLLMFailurePropagates(ms) ==
    [messages |-> ms, pc |-> "idle", result |-> Returned("raise", "boom")]

\* Mutant of OnLLMFailure: the assistant message is appended before the call is made.
OnLLMFailureAppends(ms) ==
    [messages |-> AfterResponse(ms, "", <<>>), pc |-> "idle",
     result |-> Returned("error", LLMFailure)]

\* Agent._call_llm re-raises the client's exception; what run() does with it.
OnLLMFailure(ms) == [messages |-> ms, pc |-> "idle", result |-> Returned("error", LLMFailure)]

LLMFails ==
    /\ lastEvent' = "LLMFails"
    /\ pc = "call_llm"
    /\ LET o == OnLLMFailure(messages)
       IN  /\ messages' = o.messages
           /\ pc' = o.pc
           /\ result' = o.result
    /\ mainCalls' = mainCalls + 1
    /\ deviated' = TRUE
    /\ sinceSummary' = MainCallCounted(sinceSummary)
    /\ UNCHANGED <<config, skip, step, pending, idx, proc, nextId, runs, userMsgs, toolRounds,
                   execLog>>

----------------------------------------------------------------------------
\* Agent._execute_tools: the for loop over tool_calls.

\* The result the dispatcher builds for a name outside self.tools.
UnknownToolResult(tool_name) == ToolResult(FALSE, "", "Unknown tool: " \o tool_name)

\* The result the dispatcher builds when tool.execute raises an Exception.
FaultResult(text) == ToolResult(FALSE, "", text)

\* What one finished tool call leaves behind: its message appended, the loop advanced.
AfterToolCall(ms, i, tool_call, res) ==
    [messages |-> Append(ms, ToolResultMessage(tool_call, res)), idx |-> i + 1, pc |-> "tools"]

\* Mutant of UnknownTool: the unknown call is skipped without recording a result.
UnknownToolDropped ==
    /\ lastEvent' = "UnknownTool"
    /\ pc = "tools"
    /\ idx <= Len(pending)
    /\ pending[idx].name \notin tools
    /\ idx' = idx + 1
    /\ execLog' = Append(execLog, pending[idx].id)
    /\ UNCHANGED <<config, sinceSummary, messages, skip, pc, step, pending, result, proc, nextId, runs,
                   userMsgs, mainCalls, toolRounds, deviated>>

\* `tool_name not in self.tools`: a failed result is recorded and the loop continues.
UnknownTool ==
    /\ lastEvent' = "UnknownTool"
    /\ pc = "tools"
    /\ idx <= Len(pending)
    /\ pending[idx].name \notin tools
    /\ LET o == AfterToolCall(messages, idx, pending[idx], UnknownToolResult(pending[idx].name))
       IN  /\ messages' = o.messages
           /\ idx' = o.idx
           /\ pc' = o.pc
    /\ execLog' = Append(execLog, pending[idx].id)
    /\ UNCHANGED <<config, sinceSummary, skip, step, pending, result, proc, nextId, runs, userMsgs, mainCalls,
                   toolRounds, deviated>>

\* `await tool.execute(**arguments)` is entered; the bash tool spawns its subprocess
\* (BashTool.execute up to `await asyncio.wait_for(process.communicate(), ...)`).
StartTool ==
    /\ lastEvent' = "StartTool"
    /\ pc = "tools"
    /\ idx <= Len(pending)
    /\ pending[idx].name \in tools
    /\ IF pending[idx].name = "bash"
         THEN /\ proc' = "running"
              /\ pc' = "bash_wait"
         ELSE /\ proc' = proc
              /\ pc' = "tool_wait"
    /\ execLog' = Append(execLog, pending[idx].id)
    /\ UNCHANGED <<config, sinceSummary, messages, skip, step, pending, idx, result, nextId, runs, userMsgs,
                   mainCalls, toolRounds, deviated>>

\* tool.execute returns a ToolResult.
ToolReturns ==
    /\ lastEvent' = "ToolReturns"
    /\ pc = "tool_wait"
    /\ \E res \in {ToolResult(TRUE, "out", None)} :
         LET o == AfterToolCall(messages, idx, pending[idx], res)
         IN  /\ messages' = o.messages
             /\ idx' = o.idx
             /\ pc' = o.pc
    /\ UNCHANGED <<config, sinceSummary, skip, step, pending, result, proc, nextId, runs, userMsgs, mainCalls,
                   toolRounds, execLog, deviated>>

\* Mutant of ToolRaises: the exception is not caught and leaves run().
ToolRaisesPropagates ==
    /\ lastEvent' = "ToolRaises"
    /\ pc = "tool_wait"
    /\ pc' = "idle"
    /\ result' = Returned("raise", "fault")
    /\ UNCHANGED <<config, sinceSummary, messages, skip, step, pending, idx, proc, nextId, runs,
                   userMsgs, mainCalls, toolRounds, execLog, deviated>>

\* tool.execute raises an Exception: caught, converted into a failed result.
ToolRaises ==
    /\ lastEvent' = "ToolRaises"
    /\ pc = "tool_wait"
    /\ LET o == AfterToolCall(messages, idx, pending[idx], FaultResult("fault"))
       IN  /\ messages' = o.messages
           /\ idx' = o.idx
           /\ pc' = o.pc
    /\ UNCHANGED <<config, sinceSummary, skip, step, pending, result, proc, nextId, runs, userMsgs, mainCalls,
                   toolRounds, execLog, deviated>>

\* BashTool.execute, the result built from the exit status and the captured streams.
BashResult(returncode, stdout, stderr) ==
    ToolResult(returncode = 0,
               IF stderr # "" /\ returncode # 0 THEN stdout \o "\nError: " \o stderr ELSE stdout,
               IF returncode # 0 THEN stderr ELSE None)

\* The subprocess exits within the timeout.
BashExits ==
    /\ lastEvent' = "BashExits"
    /\ pc = "bash_wait"
    /\ \E rc \in {0, 1} :
         LET o == AfterToolCall(messages, idx, pending[idx],
                                BashResult(rc, "out", IF rc = 0 THEN "" ELSE "bad"))
         IN  /\ messages' = o.messages
             /\ idx' = o.idx
             /\ pc' = o.pc
    /\ proc' = "none"
    /\ UNCHANGED <<config, sinceSummary, skip, step, pending, result, nextId, runs, userMsgs, mainCalls,
                   toolRounds, execLog, deviated>>

\* asyncio.TimeoutError: process.kill(), a failed result.
BashTimesOut ==
    /\ lastEvent' = "BashTimesOut"
    /\ pc = "bash_wait"
    /\ LET o == AfterToolCall(messages, idx, pending[idx],
                              ToolResult(FALSE, "", "Command timed out after "
                                  \o ToString(BashDefaultTimeout) \o " seconds"))
       IN  /\ messages' = o.messages
           /\ idx' = o.idx
           /\ pc' = o.pc
    /\ proc' = "none"
    /\ UNCHANGED <<config, sinceSummary, skip, step, pending, result, nextId, runs, userMsgs, mainCalls,
                   toolRounds, execLog, deviated>>

\* Mutant of ToolsDone: `if self.interactive:` left out, the gate is never asked.
ToolsDoneNoGate ==
    /\ lastEvent' = "ToolsDone"
    /\ pc = "tools"
    /\ idx > Len(pending)
    /\ pc' = "loop"
    /\ step' = step + 1
    /\ UNCHANGED <<config, sinceSummary, messages, skip, pending, idx, result, proc, nextId, runs, userMsgs,
                   mainCalls, toolRounds, execLog, deviated>>

\* The for loop is exhausted: on to the confirmation prompt, or straight to step += 1.
ToolsDone ==
    /\ lastEvent' = "ToolsDone"
    /\ pc = "tools"
    /\ idx > Len(pending)
    /\ IF interactive
         THEN /\ pc' = "confirm"
              /\ step' = step
         ELSE /\ pc' = "loop"
              /\ step' = step + 1
    /\ UNCHANGED <<config, sinceSummary, messages, skip, pending, idx, result, proc, nextId, runs, userMsgs,
                   mainCalls, toolRounds, execLog, deviated>>

----------------------------------------------------------------------------
\* Agent._ask_continue: what the prompt's outcome is turned into.
ConfirmOutcomes == {"yes", "no", "KeyboardInterrupt", "EOFError", "Exception"}

\* Mutant of ask_continue: an interrupt is swallowed by the generic handler.
ask_continue_swallows(outcome) ==
    CASE outcome = "yes" -> TRUE
      [] outcome = "no" -> FALSE
      [] OTHER -> TRUE

ask_continue(outcome) ==
    CASE outcome = "yes" -> TRUE
      [] outcome = "no" -> FALSE
      [] outcome \in {"KeyboardInterrupt", "EOFError"} -> FALSE
      [] OTHER -> TRUE

\* Agent.run, what a refusal does to the run.
OnRefusal(ms) == [messages |-> ms, pc |-> "idle", result |-> Returned("cancel", CancelNotice)]

AskContinue ==
    /\ pc = "confirm"
    /\ \E outcome \in ConfirmOutcomes :
         /\ lastEvent' = outcome
         /\ IF ask_continue(outcome)
              THEN /\ step' = step + 1
                   /\ pc' = "loop"
                   /\ UNCHANGED <<messages, result, deviated>>
              ELSE /\ LET o == OnRefusal(messages)
                      IN  /\ messages' = o.messages
                          /\ pc' = o.pc
                          /\ result' = o.result
                   /\ deviated' = TRUE
                   /\ step' = step
    /\ UNCHANGED <<config, sinceSummary, skip, pending, idx, proc, nextId, runs, userMsgs, mainCalls,
                   toolRounds, execLog>>

----------------------------------------------------------------------------
\* Cancellation of the task running run(): asyncio raises CancelledError at the await
\* the coroutine is suspended in.  No handler in run(), _call_llm, _execute_tools,
\* _ask_continue or BashTool.execute catches it (they catch Exception, TimeoutError,
\* KeyboardInterrupt and EOFError), so it leaves run() as an exception.
AwaitPoints == {"summarizing", "call_llm", "tool_wait", "bash_wait", "confirm"}

Cancel ==
    /\ lastEvent' = "Cancel"
    /\ pc \in AwaitPoints
    /\ pc' = "idle"
    /\ result' = Returned("raise", "CancelledError")
    /\ UNCHANGED <<config, sinceSummary, messages, skip, step, pending, idx, proc, nextId, runs, userMsgs,
                   mainCalls, toolRounds, execLog, deviated>>

----------------------------------------------------------------------------
\* The steps of a started run().
RunStep ==
    \/ StepLimit
    \/ BudgetCheck
    \/ SummaryReturns
    \/ SummaryFails
    \/ LLMRespondsTools
    \/ LLMRespondsFinal
    \/ LLMFails
    \/ UnknownTool
    \/ StartTool
    \/ ToolReturns
    \/ ToolRaises
    \/ ToolsDone
    \/ AskContinue

Next ==
    \/ AddUserMessage
    \/ StartRun
    \/ StepLimit
    \/ BudgetCheck
    \/ SummaryReturns
    \/ SummaryFails
    \/ LLMRespondsTools
    \/ LLMRespondsFinal
    \/ LLMFails
    \/ UnknownTool
    \/ StartTool
    \/ ToolReturns
    \/ ToolRaises
    \/ ToolsDone
    \/ AskContinue

Spec == Init /\ [][Next]_vars

\* run() is a coroutine the event loop keeps resuming while its awaits complete.
FairSpec == Spec /\ WF_vars(RunStep)

\* The agent with the bash tool, its subprocess, and cancellation of the running task.
NextCancel ==
    \/ Next
    \/ BashExits
    \/ BashTimesOut
    \/ Cancel

SpecCancel == InitBash /\ [][NextCancel]_vars

----------------------------------------------------------------------------
\* Reading the history.

\* Position of the nearest assistant message before position i, 0 when there is none.
NearestAssistant(ms, i) ==
    LET js == {j \in 1..(i - 1) : ms[j].role = "assistant"}
    IN  IF js = {} THEN 0 ELSE CHOOSE j \in js : \A k \in js : k <= j

\* Position of the tool call with this id in a tool_calls list, 0 when there is none.
CallIndex(tool_calls, id) ==
    LET ts == {t \in 1..Len(tool_calls) : tool_calls[t].id = id}
    IN  IF ts = {} THEN 0 ELSE CHOOSE t \in ts : TRUE

\* The last n messages are the results of the first n calls of `tool_calls`, in order,
\* and the message before them is the assistant message that requested `tool_calls`.
ResultsRecorded(ms, tool_calls, n) ==
    /\ Len(ms) > n
    /\ ms[Len(ms) - n].role = "assistant"
    /\ ms[Len(ms) - n].tool_calls = tool_calls
    /\ \A t \in 1..n :
         /\ ms[Len(ms) - n + t].role = "tool"
         /\ ms[Len(ms) - n + t].tool_call_id = tool_calls[t].id
         /\ ms[Len(ms) - n + t].name = tool_calls[t].name

Running == pc # "idle"
Ended == pc = "idle" /\ result.via # "none"

----------------------------------------------------------------------------
\* C1: every tool message answers a tool call of the nearest assistant message before
\* it that is still in the history, and the results of one assistant message stand in
\* the order of its tool calls.
C1_PairingPreserved ==
    \A i \in 1..Len(messages) :
        messages[i].role = "tool" =>
            LET j == NearestAssistant(messages, i)
            IN  /\ j > 0
                /\ CallIndex(messages[j].tool_calls, messages[i].tool_call_id) > 0
                /\ \A k \in (j + 1)..(i - 1) :
                     CallIndex(messages[j].tool_calls, messages[k].tool_call_id)
                         < CallIndex(messages[j].tool_calls, messages[i].tool_call_id)

Ids(tool_calls, n) == [t \in 1..n |-> tool_calls[t].id]

\* C2: with max_steps = N, a model that asks for tools in every response and a gate
\* that never refuses, run() makes exactly N main-loop model calls and N rounds of tool
\* execution and then returns the step-limit notice; there is never an (N+1)-th round.
C2_StepLimitExact ==
    /\ mainCalls <= max_steps
    /\ toolRounds <= max_steps
    /\ (Ended /\ ~deviated) =>
         /\ result = Returned("limit", StepLimitNotice(max_steps))
         /\ mainCalls = max_steps
         /\ toolRounds = max_steps

C2_Witness ==
    /\ Ended
    /\ ~deviated
    /\ max_steps = 2
    /\ toolRounds = 2
    /\ result.via = "limit"

\* C3: while every awaited call returns, a started run() ends, and it ends by returning
\* the model's final content, the cancellation notice, the step-limit notice or the
\* description of the failed model call.
C3_RunReturns ==
    /\ [](Ended => \/ result = Returned("final", FinalText)
                   \/ result = Returned("cancel", CancelNotice)
                   \/ result = Returned("limit", StepLimitNotice(max_steps))
                   \/ result = Returned("error", LLMFailure))
    /\ (Running ~> Ended)

C3_Witness ==
    /\ Ended
    /\ runs = 2
    /\ result.via = "final"
    /\ toolRounds > 0

\* C4: when the model client raises on a main-loop call, run() returns the error
\* description, the history is what it was before the call, and nothing more is called
\* until the caller acts again.
C4_ModelFailureReturned ==
    [][ /\ (lastEvent' = "LLMFails" /\ pc = "call_llm") =>
             /\ messages' = messages
             /\ pc' = "idle"
             /\ result' = Returned("error", LLMFailure)
        /\ (lastEvent = "LLMFails") => lastEvent' \in {"AddUserMessage", "StartRun"}
      ]_vars

C4_Witness ==
    /\ lastEvent = "LLMFails"
    /\ result.via = "error"
    /\ toolRounds > 0
    /\ messages[Len(messages)].role = "tool"

\* C5: an unknown tool, or a tool that raises, gives one failed result recorded as a
\* tool message; the run goes on with the rest of the batch and the batch ends with a
\* result for every call.
C5_ToolFailureAbsorbed ==
    /\ [][ /\ (lastEvent' = "UnknownTool" /\ pc = "tools") =>
                /\ messages' = Append(messages,
                       Message("tool", "Error: Unknown tool: " \o pending[idx].name, <<>>,
                               pending[idx].id, pending[idx].name))
                /\ pc' = "tools" /\ idx' = idx + 1 /\ result' = NoResult
           /\ (lastEvent' = "ToolRaises" /\ pc = "tool_wait") =>
                /\ messages' = Append(messages,
                       Message("tool", "Error: fault", <<>>,
                               pending[idx].id, pending[idx].name))
                /\ pc' = "tools" /\ idx' = idx + 1 /\ result' = NoResult
           /\ (lastEvent \in {"UnknownTool", "ToolRaises"}) =>
                lastEvent' \in {"UnknownTool", "StartTool", "ToolsDone"}
           /\ (lastEvent' = "ToolsDone" /\ pc = "tools") =>
                /\ ResultsRecorded(messages, pending, Len(pending))
                /\ pc' \in {"loop", "confirm"}
         ]_vars

C5_Witness ==
    /\ pc = "call_llm"
    /\ mainCalls = 1
    /\ \E i \in 1..Len(messages) : messages[i].content = "Error: fault"
    /\ \E i \in 1..Len(messages) : messages[i].content = "Error: Unknown tool: nope"

\* C6: the calls of one response are dispatched one at a time in request order, each
\* after the result of the one before it was appended, and the step ends with exactly
\* one tool message per call, in request order, before the next model call.
C6_SequentialInOrder ==
    /\ pc = "tools" =>
         /\ idx \in 1..(Len(pending) + 1)
         /\ execLog = Ids(pending, idx - 1)
         /\ ResultsRecorded(messages, pending, idx - 1)
    /\ pc \in {"tool_wait", "bash_wait"} =>
         /\ idx \in 1..Len(pending)
         /\ execLog = Ids(pending, idx)
         /\ ResultsRecorded(messages, pending, idx - 1)
    /\ (pc \in {"confirm", "loop"} /\ toolRounds > 0) =>
         /\ execLog = Ids(pending, Len(pending))
         /\ ResultsRecorded(messages, pending, Len(pending))
    /\ (pc \in {"summarizing", "call_llm"} /\ toolRounds > 0) =>
         /\ idx = Len(pending) + 1
         /\ execLog = Ids(pending, Len(pending))

C6_Witness ==
    /\ pc = "tool_wait"
    /\ idx = 2
    /\ Len(pending) = 2
    /\ messages[Len(messages)].tool_call_id = pending[1].id

\* C7: a negative answer to the prompt, or an interrupt of it, makes run() return the
\* cancellation notice with the history untouched, the results of the finished step
\* included, and nothing more is called until the caller acts again.
C7_RefusalCancels ==
    [][ /\ (pc = "confirm" /\ lastEvent' \in {"no", "KeyboardInterrupt", "EOFError"}) =>
             /\ messages' = messages
             /\ ResultsRecorded(messages', pending, Len(pending))
             /\ pc' = "idle"
             /\ result' = Returned("cancel", CancelNotice)
        /\ (lastEvent \in {"no", "KeyboardInterrupt", "EOFError"}) =>
             lastEvent' \in {"AddUserMessage", "StartRun"}
      ]_vars

C7_Witness ==
    /\ lastEvent = "KeyboardInterrupt"
    /\ result = Returned("cancel", CancelNotice)
    /\ Len(pending) = 2
    /\ ResultsRecorded(messages, pending, 2)

\* C8: a cancellation delivered at an await point makes run() end with the
\* cancellation notice, and no subprocess of the bash tool is left running.
C8_CancellationEndsCancelled ==
    lastEvent = "Cancel" =>
        /\ result = Returned("cancel", CancelNotice)
        /\ proc = "none"

\* C8, the second half alone: after a cancellation no subprocess is left running.
C8_SubprocessReleased ==
    lastEvent = "Cancel" => proc = "none"

----------------------------------------------------------------------------
\* The sandbox (sandbox.py).  A path is the sequence of its components below "/"; a
\* command line and a command name are sequences of characters.

Components == {"w", "e", "l", ".."}
Paths == UNION {[1..n -> Components] : n \in 0..MaxDepth}

\* The file system the paths are resolved in: /l is a symbolic link to /e.
Links == (<<"l">> :> <<"e">>)

\* Path.resolve(): ".." steps up (not above the root), a symbolic link is followed.
RECURSIVE ResolveFrom(_, _)
ResolveFrom(done, rest) ==
    IF rest = <<>> THEN done
    ELSE LET c == Head(rest)
             next == IF c = ".."
                       THEN IF done = <<>> THEN <<>> ELSE SubSeq(done, 1, Len(done) - 1)
                       ELSE Append(done, c)
         IN  ResolveFrom(IF next \in DOMAIN Links THEN Links[next] ELSE next, Tail(rest))

Resolve(path) == ResolveFrom(<<>>, path)

\* path.relative_to(root) succeeds: root is the path or one of its ancestors.
IsUnder(path, root) ==
    /\ Len(root) <= Len(path)
    /\ SubSeq(path, 1, Len(root)) = root

\* FileSandbox._resolve_paths, for one of the two lists.
ResolveAll(paths) == [i \in 1..Len(paths) |-> Resolve(paths[i])]

Verdict(allowed, reason) == [allowed |-> allowed, reason |-> reason]

\* Mutant of FileIsAllowed: the allowed list is consulted before the forbidden list.
FileIsAllowedAllowFirst(path, allowed, forbidden) ==
    LET p == Resolve(path)
    IN  IF allowed # <<>> /\ \E i \in 1..Len(allowed) : IsUnder(p, allowed[i])
          THEN Verdict(TRUE, None)
        ELSE IF \E i \in 1..Len(forbidden) : IsUnder(p, forbidden[i])
          THEN Verdict(FALSE, "Access denied: path is in forbidden list")
        ELSE IF allowed = <<>>
          THEN Verdict(TRUE, None)
        ELSE Verdict(FALSE, "Access denied: path not in allowed list")

\* FileSandbox.is_allowed
FileIsAllowed(path, allowed, forbidden) ==
    LET p == Resolve(path)
    IN  IF \E i \in 1..Len(forbidden) : IsUnder(p, forbidden[i])
          THEN Verdict(FALSE, "Access denied: path is in forbidden list")
        ELSE IF allowed = <<>>
          THEN Verdict(TRUE, None)
        ELSE IF \E i \in 1..Len(allowed) : IsUnder(p, allowed[i])
          THEN Verdict(TRUE, None)
        ELSE Verdict(FALSE, "Access denied: path not in allowed list")

\* ---- commands ----
Alphabet == {"r", "m", " ", "/", "|", ";"}
Commands == UNION {[1..n -> Alphabet] : n \in 0..MaxCmdLen}

\* str.strip(), str.lstrip()
RECURSIVE LStrip(_)
LStrip(s) == IF s # <<>> /\ Head(s) = " " THEN LStrip(Tail(s)) ELSE s

RECURSIVE RStrip(_)
RStrip(s) == IF s # <<>> /\ s[Len(s)] = " " THEN RStrip(SubSeq(s, 1, Len(s) - 1)) ELSE s

Strip(s) == RStrip(LStrip(s))

\* Position of the first occurrence of `sep` in s, 0 when it does not occur.
Find(s, sep) ==
    LET at == {i \in 1..(Len(s) - Len(sep) + 1) : SubSeq(s, i, i + Len(sep) - 1) = sep}
    IN  IF at = {} THEN 0 ELSE CHOOSE i \in at : \A j \in at : i <= j

\* Position of the last occurrence of the character c in s, 0 when it does not occur.
FindLast(s, c) ==
    LET at == {i \in 1..Len(s) : s[i] = c}
    IN  IF at = {} THEN 0 ELSE CHOOSE i \in at : \A j \in at : j <= i

\* `if separator in command: command = command.split(separator)[0].strip()`
CutAt(s, sep) == IF Find(s, sep) = 0 THEN s ELSE Strip(SubSeq(s, 1, Find(s, sep) - 1))

SepPipe == <<"|">>
SepGreater == <<">">>
SepLess == <<"<">>
SepAmpersand == <<"&">>
SepSemicolons == <<";", ";">>
Separators == <<SepPipe, SepGreater, SepLess, SepAmpersand, SepSemicolons>>

RECURSIVE CutAtAll(_, _)
CutAtAll(s, seps) == IF seps = <<>> THEN s ELSE CutAtAll(CutAt(s, Head(seps)), Tail(seps))

\* command.split()[0]: the first whitespace-delimited word, <<>> when there is none.
FirstWord(s) ==
    LET t == LStrip(s)
    IN  IF Find(t, <<" ">>) = 0 THEN t ELSE SubSeq(t, 1, Find(t, <<" ">>) - 1)

\* CommandSandbox._extract_command_name
extract_command_name(command) ==
    LET first == FirstWord(CutAtAll(Strip(command), Separators))
    IN  IF FindLast(first, "/") = 0 THEN first
        ELSE SubSeq(first, FindLast(first, "/") + 1, Len(first))

\* CommandSandbox._build_command_sets: the names added when none is configured.
DefaultForbidden ==
    {<<"r", "m">>,
     <<"r", "m", "d", "i", "r">>,
     <<"d", "e", "l">>,
     <<"d", "e", "l", "e", "t", "e">>,
     <<"f", "o", "r", "m", "a", "t">>,
     <<"m", "k", "f", "s">>,
     <<"f", "d", "i", "s", "k">>,
     <<"d", "d">>,
     <<"s", "h", "u", "t", "d", "o", "w", "n">>,
     <<"r", "e", "b", "o", "o", "t">>,
     <<"h", "a", "l", "t">>,
     <<"p", "o", "w", "e", "r", "o", "f", "f">>,
     <<"k", "i", "l", "l">>,
     <<"k", "i", "l", "l", "a", "l", "l">>,
     <<"s", "u">>,
     <<"s", "u", "d", "o">>,
     <<"p", "a", "s", "s", "w", "d">>,
     <<"c", "h", "m", "o", "d">>,
     <<"c", "h", "o", "w", "n">>,
     <<"i", "p", "t", "a", "b", "l", "e", "s">>,
     <<"u", "f", "w">>}

build_command_sets(cfg) ==
    [allowed |-> cfg.allowed_commands,
     forbidden |-> IF cfg.forbidden_commands = {}
                     THEN DefaultForbidden ELSE cfg.forbidden_commands]

\* Mutant of CommandIsAllowed: the allowed set is consulted before the forbidden set.
CommandIsAllowedAllowFirst(command, sets) ==
    LET cmd_name == extract_command_name(command)
    IN  IF sets.allowed # {} /\ cmd_name \in sets.allowed
          THEN Verdict(TRUE, None)
        ELSE IF cmd_name \in sets.forbidden
          THEN Verdict(FALSE, "Command forbidden for security reasons")
        ELSE IF sets.allowed # {}
          THEN Verdict(FALSE, "Command not in allowed list")
        ELSE Verdict(TRUE, None)

\* CommandSandbox.is_allowed
CommandIsAllowed(command, sets) ==
    LET cmd_name == extract_command_name(command)
    IN  IF cmd_name \in sets.forbidden
          THEN Verdict(FALSE, "Command forbidden for security reasons")
        ELSE IF sets.allowed # {} /\ cmd_name \notin sets.allowed
          THEN Verdict(FALSE, "Command not in allowed list")
        ELSE Verdict(TRUE, None)

\* ---- the configurations a Sandbox is constructed with ----
RootPool == {<<"w">>, <<"w", "e">>, <<"l">>}
NamePool == {<<"r", "m">>, <<"m">>}
WorkspacePool == {<<"w">>, <<"l", "w">>}

Injective(f) == \A i, j \in DOMAIN f : f[i] = f[j] => i = j
PathLists == {l \in UNION {[1..n -> RootPool] : n \in 0..MaxRoots} : Injective(l)}

SandboxConfig(allowed_paths, forbidden_paths, allowed_commands, forbidden_commands) ==
    [allowed_paths |-> allowed_paths, forbidden_paths |-> forbidden_paths,
     allowed_commands |-> allowed_commands, forbidden_commands |-> forbidden_commands,
     max_file_size |-> DefaultMaxFileSize]

WithMaxFileSize(cfg, max_file_size) == [cfg EXCEPT !.max_file_size = max_file_size]

SandboxConfigs ==
    {SandboxConfig(a, f, {}, {}) : a \in PathLists, f \in PathLists}
        \cup {SandboxConfig(<<>>, <<>>, a, f) : a \in SUBSET NamePool, f \in SUBSET NamePool}
        \cup {WithMaxFileSize(SandboxConfig(<<>>, <<>>, {}, {}), n) : n \in 0..MaxFileSize}

\* Sandbox.__init__: FileSandbox._resolve_paths and CommandSandbox._build_command_sets.
Construct ==
    /\ sb_phase = "new"
    /\ \E cfg \in SandboxConfigs :
         /\ sb_config' = cfg
         /\ sb_allowed' = ResolveAll(cfg.allowed_paths)
         /\ sb_forbidden' = ResolveAll(cfg.forbidden_paths)
         /\ sb_commands' = build_command_sets(cfg)
    /\ sb_phase' = "ready"
    /\ UNCHANGED <<agentVars, memVars, toolVars, retryVars, sb_workspace, sb_query>>

\* Sandbox.configure_from_workspace: the two lists it leaves behind.  A workspace not
\* yet in FileSandbox.allowed_paths is appended to it, and _resolve_paths() then
\* rebuilds both lists from the configuration.
ListsAfterConfigure(allowed, forbidden, cfg, workspace_dir) ==
    LET workspace_path == Resolve(workspace_dir)
    IN  IF \E i \in 1..Len(allowed) : allowed[i] = workspace_path
          THEN [allowed |-> allowed, forbidden |-> forbidden]
          ELSE [allowed |-> ResolveAll(cfg.allowed_paths),
                forbidden |-> ResolveAll(cfg.forbidden_paths)]

ConfigureFromWorkspace ==
    /\ sb_phase = "ready"
    /\ Cardinality(sb_workspace) < MaxWorkspaces
    /\ \E w \in WorkspacePool \ sb_workspace :
         LET lists == ListsAfterConfigure(sb_allowed, sb_forbidden, sb_config, w)
         IN  /\ sb_allowed' = lists.allowed
             /\ sb_forbidden' = lists.forbidden
             /\ sb_workspace' = sb_workspace \cup {w}
    /\ sb_query' = [kind |-> "none"]
    /\ UNCHANGED <<agentVars, memVars, toolVars, retryVars, sb_config, sb_commands, sb_phase>>

\* Mutant of SandboxIsFileAllowed: the path is resolved strictly, so a path that does
\* not exist makes the check fail.
SandboxIsFileAllowedStrict(path, exists, allowed, forbidden) ==
    IF exists THEN FileIsAllowed(path, allowed, forbidden)
    ELSE Verdict(FALSE, "Error checking path access")

\* Sandbox.is_file_allowed -> FileSandbox.is_allowed, called for a path that exists or
\* does not: Path.resolve() is not strict and nothing else looks at the file system.
SandboxIsFileAllowed(path, exists, allowed, forbidden) ==
    FileIsAllowed(path, allowed, forbidden)

\* Sandbox.is_file_allowed(path); one query is followed up at a time.  The root
\* directory always exists, any other path may or may not.
CheckPath ==
    /\ sb_phase = "ready"
    /\ sb_query.kind = "none"
    /\ \E path \in Paths : \E exists \in BOOLEAN :
         /\ Resolve(path) = <<>> => exists
         /\ sb_query' = [kind |-> "file", path |-> path, exists |-> exists,
                         verdict |-> SandboxIsFileAllowed(path, exists, sb_allowed,
                                                          sb_forbidden)]
    /\ UNCHANGED <<agentVars, memVars, toolVars, retryVars, sb_config, sb_allowed, sb_forbidden, sb_commands, sb_phase,
                   sb_workspace>>

\* Sandbox.is_command_allowed(command); one query is followed up at a time.  The verdict
\* does not look at the path lists, so the query is followed up on the sandboxes
\* configured without any.
CheckCommand ==
    /\ sb_phase = "ready"
    /\ sb_query.kind = "none"
    /\ sb_config.allowed_paths = <<>> /\ sb_config.forbidden_paths = <<>>
    /\ \E command \in Commands :
         sb_query' = [kind |-> "command", command |-> command,
                      verdict |-> CommandIsAllowed(command, sb_commands)]
    /\ UNCHANGED <<agentVars, memVars, toolVars, retryVars, sb_config, sb_allowed, sb_forbidden, sb_commands, sb_phase,
                   sb_workspace>>

\* What Path.exists(), Path.is_file() and Path.stat() find at a resolved path: nothing,
\* a directory, a regular file of some size, or an entry stat() fails on.
Entries ==
    {[kind |-> "absent"], [kind |-> "dir"], [kind |-> "unreadable"]}
        \cup {[kind |-> "file", size |-> n] : n \in 0..(MaxFileSize + 1)}

\* Mutant of check_file_size: `size >= self.config.max_file_size`.
check_file_size_excludes_limit(entry, max_file_size) ==
    IF entry.kind = "unreadable" THEN Verdict(FALSE, "Error checking file size")
    ELSE IF entry.kind # "file" THEN Verdict(TRUE, None)
    ELSE IF entry.size >= max_file_size THEN Verdict(FALSE, "File too large")
    ELSE Verdict(TRUE, None)

\* FileSandbox.check_file_size
check_file_size(entry, max_file_size) ==
    IF entry.kind = "unreadable" THEN Verdict(FALSE, "Error checking file size")
    ELSE IF entry.kind # "file" THEN Verdict(TRUE, None)
    ELSE IF entry.size > max_file_size THEN Verdict(FALSE, "File too large")
    ELSE Verdict(TRUE, None)

\* Sandbox.check_file_size(path), for what the file system holds at the path.
CheckFileSize ==
    /\ sb_phase = "ready"
    /\ sb_query.kind = "none"
    /\ \E entry \in Entries :
         sb_query' = [kind |-> "size", entry |-> entry,
                      verdict |-> check_file_size(entry, sb_config.max_file_size)]
    /\ UNCHANGED <<agentVars, memVars, toolVars, retryVars, sb_config, sb_allowed, sb_forbidden, sb_commands, sb_phase,
                   sb_workspace>>

\* A sandbox on its own: the agent is constructed and never run.
InitSandbox ==
    /\ AgentInit({})
    /\ max_steps = 0
    /\ interactive = FALSE
    /\ token_limit = DefaultTokenLimit
    /\ SandboxIdle
    /\ ToolsIdle
    /\ RetryIdle /\ MemoryIdle

NextSandbox ==
    \/ Construct
    \/ ConfigureFromWorkspace
    \/ CheckPath
    \/ CheckCommand
    \/ CheckFileSize

SpecSandbox == InitSandbox /\ [][NextSandbox]_vars

----------------------------------------------------------------------------
\* C9: forbidden rules win.  A path that resolves to a forbidden root or below it is
\* denied even when it is also at or below an allowed root; a command whose name is in
\* the forbidden set is denied even when the name is in the allowed set too.
C9_ForbiddenWins ==
    /\ (/\ sb_query.kind = "file"
        /\ \E i \in 1..Len(sb_config.forbidden_paths) :
             IsUnder(Resolve(sb_query.path), Resolve(sb_config.forbidden_paths[i])))
         => ~sb_query.verdict.allowed
    /\ (/\ sb_query.kind = "command"
        /\ extract_command_name(sb_query.command) \in sb_commands.forbidden)
         => ~sb_query.verdict.allowed

C9_Witness ==
    /\ sb_query.kind = "file"
    /\ sb_query.path = <<"l", "w">>
    /\ \E i \in 1..Len(sb_config.allowed_paths) :
         IsUnder(Resolve(sb_query.path), Resolve(sb_config.allowed_paths[i]))
    /\ \E i \in 1..Len(sb_config.forbidden_paths) :
         IsUnder(Resolve(sb_query.path), Resolve(sb_config.forbidden_paths[i]))
    /\ ~sb_query.verdict.allowed

\* C9, the command half reached: a name in both sets, denied.
C9_CommandCase ==
    /\ sb_query.kind = "command"
    /\ sb_query.command = <<"/", "r", "m">>
    /\ <<"r", "m">> \in sb_commands.allowed \cap sb_commands.forbidden
    /\ ~sb_query.verdict.allowed

\* C10: after configure_from_workspace(W), W and every path below it that is not at or
\* below a forbidden path is allowed, whatever allowed_paths the sandbox was built with.
C10_WorkspaceAllowed ==
    (/\ sb_query.kind = "file"
     /\ \E w \in sb_workspace : IsUnder(Resolve(sb_query.path), Resolve(w))
     /\ ~\E i \in 1..Len(sb_config.forbidden_paths) :
           IsUnder(Resolve(sb_query.path), Resolve(sb_config.forbidden_paths[i])))
      => sb_query.verdict.allowed

----------------------------------------------------------------------------
\* The leading command token as the policy describes it: the trimmed command line up to
\* the first occurrence of any of the separators, its first whitespace-delimited word,
\* without any directory prefix.
FirstSeparator(s) ==
    LET at == {i \in 1..Len(s) : \E k \in 1..Len(Separators) :
                   /\ i + Len(Separators[k]) - 1 <= Len(s)
                   /\ SubSeq(s, i, i + Len(Separators[k]) - 1) = Separators[k]}
    IN  IF at = {} THEN 0 ELSE CHOOSE i \in at : \A j \in at : i <= j

LeadingToken(command) ==
    LET t == Strip(command)
        head == IF FirstSeparator(t) = 0 THEN t ELSE SubSeq(t, 1, FirstSeparator(t) - 1)
        word == FirstWord(head)
        slashes == {i \in 1..Len(word) : word[i] = "/"}
    IN  IF slashes = {} THEN word
        ELSE SubSeq(word, (CHOOSE i \in slashes : \A j \in slashes : j <= i) + 1, Len(word))

DeniedByToken(token, allowed, forbidden) ==
    \/ token \in forbidden
    \/ allowed # {} /\ token \notin allowed

\* The forbidden set in force: the configured one, the built-in names when it is empty.
ForbiddenInForce(cfg) ==
    IF cfg.forbidden_commands = {} THEN DefaultForbidden ELSE cfg.forbidden_commands

\* C11: is_command_allowed denies exactly when the leading token is in the configured
\* forbidden_commands, or allowed_commands is non-empty and does not hold the token.
C11_VerdictByConfiguredSets ==
    sb_query.kind = "command" =>
        (sb_query.verdict.allowed <=>
            ~DeniedByToken(LeadingToken(sb_query.command),
                           sb_config.allowed_commands, sb_config.forbidden_commands))

\* C11 as amended: is_command_allowed denies exactly when the leading token is in the
\* forbidden set in force (the configured forbidden_commands, or the built-in default
\* names when none is configured), or allowed_commands is non-empty and does not hold
\* the token; it allows in every other case.
C11_VerdictBySetsInForce ==
    sb_query.kind = "command" =>
        (sb_query.verdict.allowed <=>
            ~DeniedByToken(LeadingToken(sb_query.command),
                           sb_config.allowed_commands, ForbiddenInForce(sb_config)))

C11_Witness ==
    /\ sb_query.kind = "command"
    /\ sb_query.command = <<"/", "m", "|">>
    /\ sb_config.forbidden_commands = {<<"r", "m">>}
    /\ sb_config.allowed_commands = {<<"m">>}
    /\ sb_query.verdict.allowed

----------------------------------------------------------------------------
UnderSome(path, roots) ==
    \E i \in 1..Len(roots) : IsUnder(Resolve(path), roots[i])

----------------------------------------------------------------------------
\* C15: check_file_size allows a path that does not exist whatever the limit, and allows
\* an existing regular file exactly when its size is at most max_file_size.
C15_SizeLimit ==
    sb_query.kind = "size" =>
        /\ sb_query.entry.kind = "absent" => sb_query.verdict.allowed
        /\ sb_query.entry.kind = "file" =>
             (sb_query.verdict.allowed <=> sb_query.entry.size <= sb_config.max_file_size)

C15_Witness ==
    /\ sb_query.kind = "size"
    /\ sb_query.entry.kind = "file"
    /\ sb_query.entry.size = sb_config.max_file_size
    /\ sb_query.entry.size > 0
    /\ sb_query.verdict.allowed

\* C15, the other two cases reached: a missing path under a limit of 0, a file one
\* byte over the limit.
C15_AbsentCase ==
    /\ sb_query.kind = "size"
    /\ sb_query.entry.kind = "absent"
    /\ sb_config.max_file_size = 0
    /\ sb_query.verdict.allowed

C15_TooLargeCase ==
    /\ sb_query.kind = "size"
    /\ sb_query.entry.kind = "file"
    /\ sb_query.entry.size = sb_config.max_file_size + 1
    /\ ~sb_query.verdict.allowed

----------------------------------------------------------------------------
\* RetryConfig.get_delay (schema/schema.py) and async_retry (retry.py)
\*
\* The delays are Python floats.  initial_delay and exponential_base are modelled as powers
\* of two, kept by their exponents (initial_exp, base_exp); max_delay is a whole number of
\* seconds.  On these values float arithmetic is exact up to the largest exponent a float
\* holds, and float.__pow__ raises OverflowError beyond it.

MaxRetries == 4        \* max_retries ranges over 0..MaxRetries
MaxAttempt == 2        \* get_delay is queried at 0..MaxAttempt and at the attempts of AttemptPool

\* A float holds 2^x for x < FloatMaxExp (sys.float_info.max_exp of the IEEE double).
FloatMaxExp == 1024

\* Every max_delay of the model is below 2^MaxDelayBits, so 2^x with x >= MaxDelayBits
\* exceeds it.
MaxDelayBits == 4

\* Exponents of exponential_base: 1.0, 2.0 and 2.0 ** 512.
BaseExps == {0, 1, FloatMaxExp \div 2}

\* max_delay values: 1.0 and 10.0.
MaxDelays == {1, 10}

AttemptPool == (0..MaxAttempt) \cup {10, FloatMaxExp}

\* The exceptions the wrapped operation raises (subclasses of Exception).
Exceptions == {"E1", "E2"}

RetryConfigs ==
    [enabled : BOOLEAN, max_retries : (-1)..MaxRetries, initial_exp : {0}, base_exp : BaseExps,
     max_delay : MaxDelays]

\* exponential_base ** attempt: the exponent of the power, or OverflowError.
Pow(base_exp, attempt) ==
    IF base_exp * attempt >= FloatMaxExp
    THEN [kind |-> "raise", exc |-> "OverflowError"]
    ELSE [kind |-> "value", exp |-> base_exp * attempt]

\* min(2 ** exp, max_delay), for max_delay < 2 ** MaxDelayBits.
MinWithCap(exp, max_delay) ==
    IF exp < MaxDelayBits /\ 2^exp <= max_delay THEN 2^exp ELSE max_delay

\* RetryConfig.get_delay
get_delay(cfg, attempt) ==
    LET power == Pow(cfg.base_exp, attempt)
    IN  IF power.kind = "raise" THEN power
        ELSE [kind |-> "value",
              value |-> MinWithCap(cfg.initial_exp + power.exp, cfg.max_delay)]

CallEvent(exc) == [ev |-> "call", exc |-> exc, delay |-> 0]
SleepEvent(delay) == [ev |-> "sleep", exc |-> "none", delay |-> delay]

\* A RetryConfig is built and a function decorated with async_retry(config).
InitRetry ==
    /\ AgentInit({})
    /\ max_steps = 0
    /\ interactive = FALSE
    /\ token_limit = DefaultTokenLimit
    /\ SandboxIdle
    /\ ToolsIdle
    /\ MemoryIdle
    /\ rt_config \in RetryConfigs
    /\ rt_pc = "idle"
    /\ rt_attempt = 0
    /\ rt_log = <<>>
    /\ rt_outcome = [kind |-> "none"]
    /\ rt_delay = [kind |-> "none"]

\* A caller evaluates config.get_delay(attempt).
GetDelay ==
    /\ rt_pc = "idle"
    /\ \E attempt \in AttemptPool :
        /\ rt_attempt' = attempt
        /\ rt_delay' = get_delay(rt_config, attempt)
    /\ rt_pc' = "queried"
    /\ UNCHANGED <<agentVars, memVars, sandboxVars, toolVars, rt_config, rt_log, rt_outcome>>

\* wrapper(): the call of the decorated function, up to its first await.
WrapperCalled ==
    /\ rt_pc = "idle"
    /\ IF rt_config.enabled /\ rt_config.max_retries <= 0
       THEN \* range(max_retries) is empty: the statement after the loop
            /\ rt_pc' = "raised"
            /\ rt_outcome' = [kind |-> "RetryError", attempts |-> rt_config.max_retries,
                              last_exception |-> "none"]
       ELSE /\ rt_pc' = "calling"
            /\ UNCHANGED rt_outcome
    /\ UNCHANGED <<agentVars, memVars, sandboxVars, toolVars, rt_config, rt_attempt, rt_log, rt_delay>>

\* `return await func(*args, **kwargs)`: the operation returns.
OperationReturns ==
    /\ rt_pc = "calling"
    /\ rt_log' = Append(rt_log, CallEvent("none"))
    /\ rt_pc' = "returned"
    /\ rt_outcome' = [kind |-> "return"]
    /\ UNCHANGED <<agentVars, memVars, sandboxVars, toolVars, rt_config, rt_attempt, rt_delay>>

\* The except clause of the wrapper's loop: what follows a failure at `attempt`.
AfterFailure(cfg, attempt, exc) ==
    IF attempt = cfg.max_retries - 1
    THEN [pc |-> "raised", sleeps |-> <<>>,
          outcome |-> [kind |-> "RetryError", attempts |-> cfg.max_retries,
                       last_exception |-> exc]]
    ELSE LET delay == get_delay(cfg, attempt)
         IN  IF delay.kind = "raise"
             THEN [pc |-> "raised", sleeps |-> <<>>,
                   outcome |-> [kind |-> "raise", exc |-> delay.exc]]
             ELSE [pc |-> "sleeping", sleeps |-> <<SleepEvent(delay.value)>>,
                   outcome |-> [kind |-> "none"]]

\* The operation raises an Exception: propagated when retry is disabled, handled by the
\* except clause otherwise.
OperationRaises ==
    /\ rt_pc = "calling"
    /\ \E exc \in Exceptions :
        IF ~rt_config.enabled
        THEN /\ rt_log' = Append(rt_log, CallEvent(exc))
             /\ rt_pc' = "raised"
             /\ rt_outcome' = [kind |-> "raise", exc |-> exc]
        ELSE LET after == AfterFailure(rt_config, rt_attempt, exc)
             IN  /\ rt_log' = Append(rt_log, CallEvent(exc)) \o after.sleeps
                 /\ rt_pc' = after.pc
                 /\ rt_outcome' = after.outcome
    /\ UNCHANGED <<agentVars, memVars, sandboxVars, toolVars, rt_config, rt_attempt, rt_delay>>

\* `await asyncio.sleep(delay)` returns: the next iteration of the loop.
SleepReturns ==
    /\ rt_pc = "sleeping"
    /\ rt_attempt' = rt_attempt + 1
    /\ rt_pc' = "calling"
    /\ UNCHANGED <<agentVars, memVars, sandboxVars, toolVars, rt_config, rt_log, rt_outcome, rt_delay>>

NextRetry ==
    \/ GetDelay
    \/ WrapperCalled
    \/ OperationReturns
    \/ OperationRaises
    \/ SleepReturns

SpecRetry == InitRetry /\ [][NextRetry]_vars

----------------------------------------------------------------------------
\* Retry: the claims.

\* min(initial_delay * exponential_base^attempt, max_delay) over the reals: max_delay when
\* some power of two up to the delay's reaches it, the delay itself otherwise.
CappedPower(cfg, attempt) ==
    LET exp == cfg.initial_exp + cfg.base_exp * attempt
    IN  IF \E k \in 0..MaxDelayBits : k <= exp /\ 2^k >= cfg.max_delay
        THEN cfg.max_delay
        ELSE 2^exp

\* C18: for every attempt index a >= 0, get_delay(a) equals
\* min(initial_delay * exponential_base^a, max_delay); with initial 1, base 2 and max 10 the
\* delays at attempts 0, 1, 2 and 10 are 1, 2, 4 and 10.
C18_DelayIsCappedPower ==
    rt_pc = "queried" =>
        /\ rt_delay = [kind |-> "value", value |-> CappedPower(rt_config, rt_attempt)]
        /\ (rt_config.initial_exp = 0 /\ rt_config.base_exp = 1 /\ rt_config.max_delay = 10) =>
            /\ rt_attempt = 0 => rt_delay.value = 1
            /\ rt_attempt = 1 => rt_delay.value = 2
            /\ rt_attempt = 2 => rt_delay.value = 4
            /\ rt_attempt = 10 => rt_delay.value = 10

\* C18, where exponential_base^a is a float: get_delay(a) is the capped power.
C18_WithinFloatRange ==
    (rt_pc = "queried" /\ rt_config.base_exp * rt_attempt < FloatMaxExp) =>
        rt_delay = [kind |-> "value", value |-> CappedPower(rt_config, rt_attempt)]

\* get_delay was asked for the delay of the spec's example at attempt 10, and capped it.
C18_CappedCase ==
    /\ rt_pc = "queried"
    /\ rt_config.base_exp = 1 /\ rt_config.max_delay = 10 /\ rt_attempt = 10
    /\ rt_delay = [kind |-> "value", value |-> 10]

\* The invocations of the wrapped operation, in order.
Invocations(log) == SelectSeq(log, LAMBDA e : e.ev = "call")

\* The log of a finished wrapper with retry enabled: failures, each but the last followed by
\* a sleep of the capped power at its index, and then the outcome of the last invocation.
RetriedAsClaimed(cfg, log, outcome) ==
    LET calls == Invocations(log)
        m == Len(calls)
    IN  /\ m \in 1..cfg.max_retries
        /\ Len(log) = 2 * m - 1
        /\ \A j \in 1..m : log[2 * j - 1].ev = "call"
        /\ \A j \in 1..(m - 1) :
            /\ calls[j].exc # "none"
            /\ log[2 * j] = SleepEvent(CappedPower(cfg, j - 1))
        /\ IF calls[m].exc = "none"
           THEN outcome = [kind |-> "return"]
           ELSE /\ m = cfg.max_retries
                /\ outcome = [kind |-> "RetryError", attempts |-> cfg.max_retries,
                              last_exception |-> calls[m].exc]

\* C17: with retry enabled and max_retries = n >= 1 the operation is invoked until its first
\* success or n failures, the wrapper sleeps get_delay(k) after the k-th failure for
\* k = 0..n-2, does not sleep after the n-th and then raises RetryError with attempts = n
\* and the last exception; with retry disabled the operation is invoked once with no sleep.
C17_RetryProtocol ==
    rt_pc \in {"returned", "raised"} =>
        IF rt_config.enabled
        THEN rt_config.max_retries >= 1 => RetriedAsClaimed(rt_config, rt_log, rt_outcome)
        ELSE Len(rt_log) = 1 /\ rt_log[1].ev = "call"

\* C17, for the configurations whose every delay is a float.
C17_WithinFloatRange ==
    (/\ rt_pc \in {"returned", "raised"}
     /\ rt_config.base_exp * rt_config.max_retries < FloatMaxExp) =>
        IF rt_config.enabled
        THEN rt_config.max_retries >= 1 => RetriedAsClaimed(rt_config, rt_log, rt_outcome)
        ELSE Len(rt_log) = 1 /\ rt_log[1].ev = "call"

\* The wrapper exhausted three attempts, sleeping twice.
C17_ExhaustedCase ==
    /\ rt_pc = "raised"
    /\ rt_config.enabled /\ rt_config.max_retries = 3
    /\ rt_outcome.kind = "RetryError"
    /\ Len(rt_log) = 5

----------------------------------------------------------------------------
\* The tools the CLI registers (cli.py _create_tools): read_file, write_file, edit_file,
\* list_directory (tools/file_tools.py), bash (tools/bash_tool.py) and TodoWrite
\* (tools/todo_tool.py), called directly on a POSIX file system.
\*
\* File contents are sequences of characters.  A call is recorded with its result, the
\* file-system effects it had and the paths a sandbox check allowed during it.

MaxContent == 3        \* the content written has at most MaxContent characters
MaxOld == 2            \* old_string has 1..MaxOld characters
MaxTodos == 3          \* a TodoWrite submission has at most MaxTodos entries

\* agent.workspace_dir
ToolWorkspace == <<"w">>

\* TodoWriteTool.todo_file
TodoFile == ToolWorkspace \o <<".tongy_todos.json">>

ContentAlphabet == {"a", "\r", "\n"}
Contents == UNION {[1..n -> ContentAlphabet] : n \in 0..MaxContent}

OldStrings == UNION {[1..n -> {"a"}] : n \in 1..MaxOld}
NewStrings == {<<>>, <<"b">>}

\* The `path` arguments: absolute or relative to the workspace.
TargetPool ==
    {[absolute |-> TRUE, parts |-> <<"w", "w">>],
     [absolute |-> TRUE, parts |-> <<"w", "e">>],
     [absolute |-> TRUE, parts |-> <<"l", "w">>],
     [absolute |-> FALSE, parts |-> <<"e", "..", "w">>]}

\* The target of the scenarios that involve no target.
DefaultTarget == [absolute |-> TRUE, parts |-> <<"w", "w">>]

\* What the file system holds at the target before the first call.
InitialFiles ==
    {[kind |-> "absent", content |-> <<>>],
     [kind |-> "dir", content |-> <<>>],
     [kind |-> "file", content |-> <<"a">>]}

\* The sandbox configurations of the tool scenarios.
ToolSandboxConfigs ==
    {SandboxConfig(<<>>, << <<"w", "e">> >>, {}, {}),
     SandboxConfig(<< <<"w">> >>, << <<"w", "e">> >>, {<<"m">>}, {<<"r", "m">>})}

\* ReadFileTool._resolve_path (and its copies in the other file tools)
resolve_path(path) == IF path.absolute THEN path.parts ELSE ToolWorkspace \o path.parts

\* What check_file_size finds at the target.
EntryOf(file) ==
    IF file.kind = "file" THEN [kind |-> "file", size |-> Len(file.content)]
    ELSE [kind |-> file.kind]

\* open(file_path, "r", encoding="utf-8").read(): text mode with universal newlines, which
\* hands "\r\n" and a lone "\r" to the caller as "\n".
RECURSIVE ReadText(_)
ReadText(bytes) ==
    IF bytes = <<>> THEN <<>>
    ELSE IF Head(bytes) = "\r"
      THEN IF Len(bytes) >= 2 /\ bytes[2] = "\n"
             THEN <<"\n">> \o ReadText(SubSeq(bytes, 3, Len(bytes)))
             ELSE <<"\n">> \o ReadText(Tail(bytes))
    ELSE <<Head(bytes)>> \o ReadText(Tail(bytes))

\* open(file_path, "w", encoding="utf-8").write(text): "\n" is written as os.linesep, which
\* is "\n" here.
WriteText(text) == text

\* `old in content`
Contains(content, old) == Find(content, old) # 0

\* content.replace(old, new, count) for a non-empty old: the first `count` occurrences,
\* found from the left without overlap.
RECURSIVE Replace(_, _, _, _)
Replace(content, old, new, count) ==
    IF count = 0 \/ Len(content) < Len(old) THEN content
    ELSE IF SubSeq(content, 1, Len(old)) = old
      THEN new \o Replace(SubSeq(content, Len(old) + 1, Len(content)), old, new, count - 1)
    ELSE <<Head(content)>> \o Replace(Tail(content), old, new, count)

\* content.count(old) for a non-empty old.
RECURSIVE Count(_, _)
Count(content, old) ==
    IF Len(content) < Len(old) THEN 0
    ELSE IF SubSeq(content, 1, Len(old)) = old
      THEN 1 + Count(SubSeq(content, Len(old) + 1, Len(content)), old)
    ELSE Count(Tail(content), old)

Effect(op, path) == [op |-> op, path |-> path]

\* file_path.parent
Parent(path) == SubSeq(path, 1, Len(path) - 1)

\* One tool call as the caller and the file system saw it.
Call(tool, arg, res, effects, checks) ==
    [tool |-> tool, arg |-> arg, result |-> res, effects |-> effects, checks |-> checks]

\* The sandbox check at the head of a file tool: is_allowed(file_path).
PathVerdict(path) == FileIsAllowed(resolve_path(path), sb_allowed, sb_forbidden)

\* Mutant of write_file: the parent directories are created before the sandbox is asked.
write_file_mkdir_first(path, content, file) ==
    LET at == Resolve(resolve_path(path))
        verdict == PathVerdict(path)
    IN  IF ~verdict.allowed
          THEN [file |-> file,
                call |-> Call("write_file", content, ToolResult(FALSE, "", verdict.reason),
                              {Effect("mkdir", Parent(at))}, {})]
        ELSE IF file.kind = "dir"
          THEN [file |-> file,
                call |-> Call("write_file", content, ToolResult(FALSE, "", "Error writing file"),
                              {Effect("mkdir", Parent(at))}, {at})]
        ELSE [file |-> [kind |-> "file", content |-> WriteText(content)],
              call |-> Call("write_file", content,
                            ToolResult(TRUE, [wrote |-> Len(content)], None),
                            {Effect("mkdir", Parent(at)), Effect("write", at)}, {at})]

\* WriteFileTool.execute: the file it leaves and the call as recorded.
write_file(path, content, file) ==
    LET at == Resolve(resolve_path(path))
        verdict == PathVerdict(path)
    IN  IF ~verdict.allowed
          THEN [file |-> file,
                call |-> Call("write_file", content, ToolResult(FALSE, "", verdict.reason),
                              {}, {})]
        ELSE IF file.kind = "dir"
          THEN \* open(..., "w") raises IsADirectoryError
               [file |-> file,
                call |-> Call("write_file", content, ToolResult(FALSE, "", "Error writing file"),
                              {Effect("mkdir", Parent(at))}, {at})]
        ELSE [file |-> [kind |-> "file", content |-> WriteText(content)],
              call |-> Call("write_file", content,
                            ToolResult(TRUE, [wrote |-> Len(content)], None),
                            {Effect("mkdir", Parent(at)), Effect("write", at)}, {at})]

\* EditFileTool.execute
edit_file(path, old_string, new_string, replace_all, file) ==
    LET at == Resolve(resolve_path(path))
        arg == [old_string |-> old_string, new_string |-> new_string,
                replace_all |-> replace_all]
        verdict == PathVerdict(path)
        size == check_file_size(EntryOf(file), sb_config.max_file_size)
        content == ReadText(file.content)
        new_content == IF replace_all
                       THEN Replace(content, old_string, new_string, Len(content))
                       ELSE Replace(content, old_string, new_string, 1)
        count == IF replace_all THEN Count(content, old_string) ELSE 1
    IN  IF ~verdict.allowed
          THEN [file |-> file,
                call |-> Call("edit_file", arg, ToolResult(FALSE, "", verdict.reason), {}, {})]
        ELSE IF ~size.allowed
          THEN [file |-> file,
                call |-> Call("edit_file", arg, ToolResult(FALSE, "", size.reason), {}, {at})]
        ELSE IF file.kind = "absent"
          THEN [file |-> file,
                call |-> Call("edit_file", arg, ToolResult(FALSE, "", "File not found"),
                              {}, {at})]
        ELSE IF file.kind = "dir"
          THEN \* open(..., "r") raises IsADirectoryError
               [file |-> file,
                call |-> Call("edit_file", arg, ToolResult(FALSE, "", "Error editing file"),
                              {}, {at})]
        ELSE IF ~Contains(content, old_string)
          THEN [file |-> file,
                call |-> Call("edit_file", arg,
                              ToolResult(FALSE, "", "Old string not found in file"),
                              {Effect("read", at)}, {at})]
        ELSE [file |-> [kind |-> "file", content |-> WriteText(new_content)],
              call |-> Call("edit_file", arg, ToolResult(TRUE, [replaced |-> count], None),
                            {Effect("read", at), Effect("write", at)}, {at})]

\* ReadFileTool.execute with the default offset and limit: the whole file.
read_file(path, file) ==
    LET at == Resolve(resolve_path(path))
        verdict == PathVerdict(path)
        size == check_file_size(EntryOf(file), sb_config.max_file_size)
    IN  IF ~verdict.allowed
          THEN Call("read_file", <<>>, ToolResult(FALSE, "", verdict.reason), {}, {})
        ELSE IF ~size.allowed
          THEN Call("read_file", <<>>, ToolResult(FALSE, "", size.reason), {}, {at})
        ELSE IF file.kind = "absent"
          THEN Call("read_file", <<>>, ToolResult(FALSE, "", "File not found"), {}, {at})
        ELSE IF file.kind = "dir"
          THEN Call("read_file", <<>>, ToolResult(FALSE, "", "Path is not a file"), {}, {at})
        ELSE Call("read_file", <<>>, ToolResult(TRUE, ReadText(file.content), None),
                  {Effect("read", at)}, {at})

\* ListDirectoryTool.execute
list_directory(path, file) ==
    LET at == Resolve(resolve_path(path))
        verdict == PathVerdict(path)
    IN  IF ~verdict.allowed
          THEN Call("list_directory", <<>>, ToolResult(FALSE, "", verdict.reason), {}, {})
        ELSE IF file.kind = "absent"
          THEN Call("list_directory", <<>>, ToolResult(FALSE, "", "Directory not found"),
                    {}, {at})
        ELSE IF file.kind = "file"
          THEN Call("list_directory", <<>>, ToolResult(FALSE, "", "Path is not a directory"),
                    {}, {at})
        ELSE Call("list_directory", <<>>, ToolResult(TRUE, "(empty directory)", None),
                  {Effect("list", at)}, {at})

\* BashTool.execute: the sandbox is asked about command.split()[0]; the command is then
\* handed to a shell, which ends with `returncode` having written stdout and stderr.
bash(command, returncode, stdout, stderr) ==
    LET cmd_name == FirstWord(command)
        verdict == CommandIsAllowed(cmd_name, sb_commands)
    IN  IF ~verdict.allowed
          THEN Call("bash", command, ToolResult(FALSE, "", verdict.reason), {}, {})
        ELSE Call("bash", command, BashResult(returncode, stdout, stderr),
                  {Effect("spawn", <<>>)}, {})

\* The CLI has built the sandbox (Sandbox(config.sandbox), configure_from_workspace) and
\* the tools; no tool has been called.
InitTools ==
    /\ AgentInit({})
    /\ max_steps = 0
    /\ interactive = FALSE
    /\ token_limit = DefaultTokenLimit
    /\ RetryIdle /\ MemoryIdle
    /\ sb_config \in ToolSandboxConfigs
    /\ LET lists == ListsAfterConfigure(ResolveAll(sb_config.allowed_paths),
                                        ResolveAll(sb_config.forbidden_paths),
                                        sb_config, ToolWorkspace)
       IN  /\ sb_allowed = lists.allowed
           /\ sb_forbidden = lists.forbidden
    /\ sb_commands = build_command_sets(sb_config)
    /\ sb_phase = "ready"
    /\ sb_workspace = {ToolWorkspace}
    /\ sb_query = [kind |-> "none"]
    /\ tl_phase = "start"
    /\ tl_target \in TargetPool
    /\ tl_file \in InitialFiles
    /\ tl_calls = <<>>
    /\ td_todos = <<>>
    /\ td_heap = <<>>
    /\ td_file = [exists |-> FALSE, todos |-> <<>>]

\* write_file(path, content): the first call of a file scenario.
WriteFile ==
    /\ tl_phase = "start"
    /\ \E content \in Contents :
         LET done == write_file(tl_target, content, tl_file)
         IN  /\ tl_file' = done.file
             /\ tl_calls' = Append(tl_calls, done.call)
    /\ tl_phase' = "written"
    /\ UNCHANGED <<agentVars, memVars, sandboxVars, retryVars, tl_target, td_todos, td_heap, td_file>>

\* edit_file(path, old_string, new_string, replace_all), on the file as found or as written.
EditFile ==
    /\ tl_phase \in {"start", "written"}
    /\ \E old_string \in OldStrings, new_string \in NewStrings, replace_all \in BOOLEAN :
         LET done == edit_file(tl_target, old_string, new_string, replace_all, tl_file)
         IN  /\ tl_file' = done.file
             /\ tl_calls' = Append(tl_calls, done.call)
    /\ tl_phase' = "edited"
    /\ UNCHANGED <<agentVars, memVars, sandboxVars, retryVars, tl_target, td_todos, td_heap, td_file>>

\* read_file(path)
ReadFile ==
    /\ tl_phase \in {"start", "written", "edited"}
    /\ tl_calls' = Append(tl_calls, read_file(tl_target, tl_file))
    /\ tl_phase' = "read"
    /\ UNCHANGED <<agentVars, memVars, sandboxVars, retryVars, tl_target, tl_file, td_todos, td_heap,
                   td_file>>

\* list_directory(path)
ListDirectory ==
    /\ tl_phase = "start"
    /\ tl_calls' = Append(tl_calls, list_directory(tl_target, tl_file))
    /\ tl_phase' = "listed"
    /\ UNCHANGED <<agentVars, memVars, sandboxVars, retryVars, tl_target, tl_file, td_todos, td_heap,
                   td_file>>

\* bash(command)
Bash ==
    /\ tl_phase = "start"
    /\ tl_target = DefaultTarget /\ tl_file.kind = "absent"   \* no file is involved
    /\ \E command \in Commands, returncode \in {0, 1}, stdout \in {"", "out"},
          stderr \in {"", "bad"} :
         tl_calls' = Append(tl_calls, bash(command, returncode, stdout, stderr))
    /\ tl_phase' = "bashed"
    /\ UNCHANGED <<agentVars, memVars, sandboxVars, retryVars, tl_target, tl_file, td_todos, td_heap,
                   td_file>>

\* ---- TodoWrite ----
\* TodoWriteTool.todos is a Python list of dicts: td_todos holds references into td_heap,
\* so that two entries of the list can be the same object and an update in place is seen
\* through every reference.  A dict is kept by its id and status.

TodoIds == {"1"}
NoTodoId == "<absent>"     \* the submitted entry has no "id" key
FreshId == "<uuid4>"       \* str(uuid4()): never an id a submission names
\* The statuses of the schema; "completed" is handled as "pending" is and is left out.
Statuses == {"pending", "in_progress"}

NoStatus == "<absent>"     \* the submitted entry has no "status" key
\* What a caller that ignores the tool's schema may send: no status, or one outside the
\* schema's enum.
MalformedStatuses == {NoStatus, "done"}

TodoEntries == [id : TodoIds \cup {NoTodoId}, status : Statuses]
MalformedEntries == [id : TodoIds \cup {NoTodoId}, status : MalformedStatuses]
\* Lists of well-formed entries, and the one-entry lists whose entry is malformed.
Submissions ==
    UNION {[1..n -> TodoEntries] : n \in 0..MaxTodos} \cup {<<e>> : e \in MalformedEntries}

\* todo_data.get("status", "pending")
StatusOf(todo_data) == IF todo_data.status = NoStatus THEN "pending" ELSE todo_data.status

\* The dicts a list of references stands for, in order.
Deref(todos, heap) == [i \in 1..Len(todos) |-> heap[todos[i]]]

\* sum(1 for t in todos if t.get("status") == "in_progress")
InProgressCount(dicts) == Cardinality({i \in 1..Len(dicts) : dicts[i].status = "in_progress"})

\* existing_map.get(id): the last dict of self.todos with this id, 0 when there is none.
ExistingRef(todos, heap, id) ==
    LET at == {i \in 1..Len(todos) : heap[todos[i]].id = id}
    IN  IF at = {} THEN 0 ELSE todos[CHOOSE i \in at : \A j \in at : j <= i]

\* The for loop of execute over the submitted entries: an entry whose id is in
\* existing_map updates that dict in place, any other entry makes a new dict.
RECURSIVE MergeTodos(_, _, _, _)
MergeTodos(rest, todos, heap, updated_todos) ==
    IF rest = <<>> THEN [heap |-> heap, updated_todos |-> updated_todos]
    ELSE LET todo_data == Head(rest)
             existing == IF todo_data.id = NoTodoId THEN 0
                         ELSE ExistingRef(todos, heap, todo_data.id)
         IN  IF existing # 0
               THEN MergeTodos(Tail(rest), todos,
                               [heap EXCEPT ![existing].status = StatusOf(todo_data)],
                               Append(updated_todos, existing))
             ELSE MergeTodos(Tail(rest), todos,
                             Append(heap, [id |-> IF todo_data.id = NoTodoId THEN FreshId
                                                  ELSE todo_data.id,
                                           status |-> StatusOf(todo_data)]),
                             Append(updated_todos, Len(heap) + 1))

\* The references of a list in the order of their first occurrence.
RECURSIVE FirstOccurrences(_, _)
FirstOccurrences(todos, seen) ==
    IF todos = <<>> THEN <<>>
    ELSE IF Head(todos) \in seen THEN FirstOccurrences(Tail(todos), seen)
    ELSE <<Head(todos)>> \o FirstOccurrences(Tail(todos), seen \cup {Head(todos)})

\* The list and the dicts it reaches, renumbered by first occurrence: dicts nothing refers
\* to any more are dropped.
Reachable(todos, heap) ==
    LET refs == FirstOccurrences(todos, {})
        NewRef(r) == CHOOSE k \in 1..Len(refs) : refs[k] = r
    IN  [todos |-> [i \in 1..Len(todos) |-> NewRef(todos[i])],
         heap |-> [k \in 1..Len(refs) |-> heap[refs[k]]]]

\* TodoWriteTool.execute(todos): the list, the dicts and the file it leaves, and the call.
execute_todos(submission, todos, heap, file) ==
    LET merged == MergeTodos(submission, todos, heap, <<>>)
        in_progress_count == InProgressCount(Deref(merged.updated_todos, merged.heap))
        arg == [in_progress |-> InProgressCount(submission),
                malformed |-> \E i \in DOMAIN submission :
                                 submission[i].status \in MalformedStatuses]
    IN  IF in_progress_count > 1
          THEN [memory |-> Reachable(todos, merged.heap),
                file |-> file,
                call |-> Call("TodoWrite", arg,
                              ToolResult(FALSE, "", "Only one todo can be in_progress at a time"),
                              {}, {})]
        ELSE [memory |-> Reachable(merged.updated_todos, merged.heap),
              file |-> [exists |-> TRUE,
                        todos |-> Deref(merged.updated_todos, merged.heap)],
              call |-> Call("TodoWrite", arg, ToolResult(TRUE, "## TODO List", None),
                            {Effect("mkdir", Parent(TodoFile)), Effect("write", TodoFile)},
                            {})]

\* TodoWriteTool.get_todos
get_todos == Deref(td_todos, td_heap)

\* TodoWriteTool._load_todos: the list read from the task-list file, each entry a dict of
\* its own; the empty list when there is no file.
load_todos(file) ==
    IF file.exists
    THEN [todos |-> [i \in 1..Len(file.todos) |-> i], heap |-> file.todos,
          effects |-> {Effect("read", TodoFile)}]
    ELSE [todos |-> <<>>, heap |-> <<>>, effects |-> {}]

\* TodoWriteTool(workspace_dir), when the CLI starts and when it is started again after a
\* first TodoWrite call.
CreateTodoTool ==
    /\ tl_phase \in {"start", "todo_first"}
    /\ tl_target = DefaultTarget /\ tl_file.kind = "absent"   \* no target is involved
    /\ LET loaded == load_todos(td_file)
       IN  /\ td_todos' = loaded.todos
           /\ td_heap' = loaded.heap
           /\ tl_calls' = <<Call("TodoWriteTool", <<>>, ToolResult(TRUE, "", None),
                                 loaded.effects, {})>>
    /\ tl_phase' = IF tl_phase = "start" THEN "todo_created" ELSE "todo_reloaded"
    /\ UNCHANGED <<agentVars, memVars, sandboxVars, retryVars, tl_target, tl_file, td_file>>

\* TodoWrite(todos): the first call, and the one after it or after a restart.
TodoWrite ==
    /\ tl_phase \in {"todo_created", "todo_first", "todo_reloaded"}
    /\ \E submission \in Submissions :
         LET done == execute_todos(submission, td_todos, td_heap, td_file)
         IN  /\ td_todos' = done.memory.todos
             /\ td_heap' = done.memory.heap
             /\ td_file' = done.file
             /\ tl_calls' = <<done.call>>
    /\ tl_phase' = IF tl_phase = "todo_created" THEN "todo_first" ELSE "todo_second"
    /\ UNCHANGED <<agentVars, memVars, sandboxVars, retryVars, tl_target, tl_file>>

NextTools ==
    \/ WriteFile
    \/ EditFile
    \/ ReadFile
    \/ ListDirectory
    \/ Bash
    \/ CreateTodoTool
    \/ TodoWrite

SpecTools == InitTools /\ [][NextTools]_vars

----------------------------------------------------------------------------
\* Tools: the claims.

FileTools == {"read_file", "write_file", "edit_file", "list_directory"}

\* What the sandbox says about the target of the file scenario.
TargetVerdict ==
    SandboxIsFileAllowed(resolve_path(tl_target), tl_file.kind # "absent", sb_allowed,
                         sb_forbidden)

\* C13: a denial stops the tool before any effect.  A file tool called on a path the sandbox
\* denies reads, writes and creates nothing, the bash tool spawns nothing for a command the
\* sandbox denies, and either returns success = false with the sandbox's reason.
C13_DenialBeforeEffect ==
    \A i \in 1..Len(tl_calls) :
        LET call == tl_calls[i]
        IN  /\ (call.tool \in FileTools /\ ~TargetVerdict.allowed) =>
                /\ call.effects = {}
                /\ call.result = ToolResult(FALSE, "", TargetVerdict.reason)
            /\ (call.tool = "bash" /\ ~CommandIsAllowed(call.arg, sb_commands).allowed) =>
                /\ call.effects = {}
                /\ call.result = ToolResult(FALSE, "", CommandIsAllowed(call.arg, sb_commands).reason)
                /\ extract_command_name(FirstWord(call.arg)) = extract_command_name(call.arg)

\* write_file was called on a path under a forbidden directory.
C13_Witness ==
    /\ Len(tl_calls) >= 1
    /\ tl_calls[1].tool = "write_file"
    /\ TargetVerdict = Verdict(FALSE, "Access denied: path is in forbidden list")

\* bash was called with a forbidden command followed by an argument.
C13_BashCase ==
    /\ Len(tl_calls) = 1
    /\ tl_calls[1].tool = "bash"
    /\ tl_calls[1].arg = <<"r", "m", " ">>
    /\ ~tl_calls[1].result.success

\* edit_file was called on a path outside the allowed list.
C13_EditCase ==
    /\ Len(tl_calls) >= 1
    /\ tl_calls[Len(tl_calls)].tool = "edit_file"
    /\ TargetVerdict = Verdict(FALSE, "Access denied: path not in allowed list")

\* C14: every file read or write performed by a tool the CLI registers (read_file,
\* write_file, edit_file, list_directory, TodoWrite) is preceded by a sandbox path check on
\* that file that allowed it.
C14_EveryFileOperationGated ==
    \A i \in 1..Len(tl_calls) :
        \A effect \in tl_calls[i].effects :
            effect.op \in {"read", "write"} => effect.path \in tl_calls[i].checks

\* C14 for the four file tools alone.
C14_FileToolsGated ==
    \A i \in 1..Len(tl_calls) :
        tl_calls[i].tool \in FileTools =>
            \A effect \in tl_calls[i].effects :
                effect.op \in {"read", "write", "list"} => effect.path \in tl_calls[i].checks

\* Position of the first occurrence of old in content (old occurs).
FirstAt(content, old) == Find(content, old)

\* content with its first occurrence of old replaced by new.
ReplacedFirst(content, old, new) ==
    SubSeq(content, 1, FirstAt(content, old) - 1) \o new
        \o SubSeq(content, FirstAt(content, old) + Len(old), Len(content))

\* content with every occurrence of old replaced by new, the occurrences being taken from
\* the left.
RECURSIVE ReplacedEvery(_, _, _)
ReplacedEvery(content, old, new) ==
    IF Find(content, old) = 0 THEN content
    ELSE SubSeq(content, 1, FirstAt(content, old) - 1) \o new
            \o ReplacedEvery(SubSeq(content, FirstAt(content, old) + Len(old), Len(content)),
                             old, new)

\* The number of occurrences of old in content, taken from the left.
RECURSIVE Occurrences(_, _)
Occurrences(content, old) ==
    IF Find(content, old) = 0 THEN 0
    ELSE 1 + Occurrences(SubSeq(content, FirstAt(content, old) + Len(old), Len(content)), old)

\* write_file(C), edit_file(old, new, replace_all) and read_file were called in this order
\* on the target, and the write was carried out.
RoundTripMade ==
    /\ Len(tl_calls) = 3
    /\ tl_calls[1].tool = "write_file" /\ tl_calls[1].result.success
    /\ tl_calls[2].tool = "edit_file"
    /\ tl_calls[3].tool = "read_file"

\* What the claim says of a round trip.
RoundTripAsClaimed ==
    LET C == tl_calls[1].arg
        edit == tl_calls[2]
        old == edit.arg.old_string
        new == edit.arg.new_string
        read == tl_calls[3].result
    IN  IF Find(C, old) = 0
          THEN /\ edit.result = ToolResult(FALSE, "", "Old string not found in file")
               /\ read = ToolResult(TRUE, C, None)
        ELSE IF edit.arg.replace_all
          THEN /\ edit.result = ToolResult(TRUE, [replaced |-> Occurrences(C, old)], None)
               /\ read = ToolResult(TRUE, ReplacedEvery(C, old, new), None)
        ELSE /\ edit.result = ToolResult(TRUE, [replaced |-> 1], None)
             /\ read = ToolResult(TRUE, ReplacedFirst(C, old, new), None)

\* C16: write_file(C), then edit_file(old, new), then read_file: the read returns C with the
\* first occurrence of old replaced (count 1), or with every occurrence replaced when
\* replace_all is true (count = the number of occurrences); when old does not occur in C the
\* edit fails with not-found and the read returns C.
C16_EditRoundTrip == RoundTripMade => RoundTripAsClaimed

\* C16 for the contents without a carriage return.
C16_WithoutCarriageReturn ==
    (RoundTripMade /\ \A i \in 1..Len(tl_calls[1].arg) : tl_calls[1].arg[i] # "\r")
        => RoundTripAsClaimed

\* A round trip that replaced two occurrences.
C16_ReplaceAllCase ==
    /\ RoundTripMade
    /\ tl_calls[2].result.success
    /\ tl_calls[2].result.content.replaced = 2

\* C19: a TodoWrite submission with more than one in_progress entry is rejected with a
\* failure result and the task-list file is as it was before the call (not created if it
\* did not exist).
C19_ManyInProgressRejected ==
    [][(/\ tl_phase' \in {"todo_first", "todo_second"}
        /\ tl_calls'[1].arg.in_progress > 1)
       => (/\ ~tl_calls'[1].result.success
           /\ td_file' = td_file)]_vars

\* A first submission with two in_progress entries was rejected and no file was created.
C19_RejectedCase ==
    /\ tl_phase = "todo_first"
    /\ tl_calls[1].arg.in_progress = 2
    /\ ~tl_calls[1].result.success
    /\ ~td_file.exists

\* C20: after any sequence of accepted and rejected TodoWrite calls, at most one entry of the
\* task list is in_progress, in the file and in the list get_todos returns.
C20_SingleInProgress ==
    /\ InProgressCount(get_todos) <= 1
    /\ td_file.exists => InProgressCount(td_file.todos) <= 1

\* C20 for the persisted file alone.
C20_FileSingleInProgress ==
    td_file.exists => InProgressCount(td_file.todos) <= 1

\* ======================================================================
\* Repository memory (memory.py): RepositoryMemory and its JSON document
\* ======================================================================

MemCategories == {"general", "metadata"}
\* Keys are character strings: delete matches them by case-insensitive substring.
MemKeys == {<<"a">>, <<"A", "b">>}
DeleteKeys == {<<"a">>, <<"b">>}
MemValues == {"v1", "v2"}

MemoryItem(key, value, category) == [key |-> key, value |-> value, category |-> category]

\* A Python dict in insertion order: a sequence of entries with distinct names.
HasKey(d, k) == \E i \in DOMAIN d : d[i].k = k
DictGet(d, k, default) == IF HasKey(d, k) THEN d[CHOOSE i \in DOMAIN d : d[i].k = k].v ELSE default
\* d[k] = v: an existing key keeps its position, a new one goes last.
DictSet(d, k, v) ==
    IF HasKey(d, k)
    THEN [i \in DOMAIN d |-> IF d[i].k = k THEN [d[i] EXCEPT !.v = v] ELSE d[i]]
    ELSE Append(d, [k |-> k, v |-> v])
DictDel(d, k) == SelectSeq(d, LAMBDA e : e.k # k)

\* The "metadata" object _save puts first in the document.
MetadataObject == [kind |-> "object", items |-> <<>>]
JsonArray(items) == [kind |-> "array", items |-> items]

RECURSIVE DumpCategories(_, _)
DumpCategories(data, memories) ==
    IF memories = <<>> THEN data
    ELSE DumpCategories(DictSet(data, Head(memories).k, JsonArray(Head(memories).v)),
                        Tail(memories))

\* The dict _save serialises: "metadata" first, then data[category] = items for every
\* category, a category of that name replacing the metadata object.
json_data(memories) == DumpCategories(<<[k |-> "metadata", v |-> MetadataObject]>>, memories)

RECURSIVE LoadCategories(_, _)
LoadCategories(memories, data) ==
    IF data = <<>> THEN memories
    ELSE LoadCategories(IF Head(data).k = "metadata" THEN memories
                        ELSE DictSet(memories, Head(data).k, Head(data).v.items),
                        Tail(data))

\* _load: nothing when the file is absent; {} when json.loads raises on an empty or
\* cut-off text; otherwise every entry but "metadata".
_load(file) ==
    IF file.state = "complete" THEN LoadCategories(<<>>, file.doc) ELSE <<>>

Lower(s) == [i \in DOMAIN s |-> IF s[i] = "A" THEN "a" ELSE s[i]]
\* key.lower() in item.key.lower()
KeyMatches(key, item) == Contains(Lower(item.key), Lower(key))
Kept(items, key) == SelectSeq(items, LAMBDA item : ~KeyMatches(key, item))

\* add: the memories after the call.
add(memories, key, value, category) ==
    LET present == IF HasKey(memories, category) THEN memories
                   ELSE DictSet(memories, category, <<>>)
        items == DictGet(present, category, <<>>)
    IN  IF \E i \in DOMAIN items : items[i].key = key
        THEN DictSet(present, category,
                     [i \in DOMAIN items |->
                         IF items[i].key = key THEN [items[i] EXCEPT !.value = value]
                         ELSE items[i]])
        ELSE DictSet(present, category, Append(items, MemoryItem(key, value, category)))

\* delete with a category: memories[category] is assigned whether or not it existed.
delete_in(memories, key, category) ==
    DictSet(memories, category, Kept(DictGet(memories, category, <<>>), key))
\* delete without one: every category is filtered.
delete_everywhere(memories, key) ==
    [i \in DOMAIN memories |-> [memories[i] EXCEPT !.v = Kept(memories[i].v, key)]]
delete(memories, key, category) ==
    IF category # None THEN delete_in(memories, key, category)
    ELSE delete_everywhere(memories, key)
ItemCount(memories, i) == Len(memories[i].v)
\* The flag delete returns, and on which it saves.
deleted(memories, key, category) ==
    IF category # None
    THEN Len(Kept(DictGet(memories, category, <<>>), key))
             < Len(DictGet(memories, category, <<>>))
    ELSE \E i \in DOMAIN memories : Len(Kept(memories[i].v, key)) < ItemCount(memories, i)

\* _save up to the point where write_text has opened the file for writing: the file
\* exists and is empty, the document is still with the writer.
SaveBegins ==
    /\ mem_file' = [state |-> "empty", doc |-> <<>>]
    /\ mem_pc' = "writing"

\* RepositoryMemory(repo_path): a new instance loads whatever the file holds.
MemConstruct ==
    /\ mem_pc = "off"
    /\ mem_memories' = _load(mem_file)
    /\ mem_pc' = "idle"
    /\ mem_last' = [op |-> "construct", ret |-> None]
    /\ UNCHANGED <<agentVars, sandboxVars, toolVars, retryVars, mem_file>>

MemAdd ==
    /\ mem_pc = "idle"
    /\ \E key \in MemKeys, value \in MemValues, category \in MemCategories :
        /\ mem_memories' = add(mem_memories, key, value, category)
        /\ mem_last' = [op |-> "add", ret |-> category]
    /\ SaveBegins
    /\ UNCHANGED <<agentVars, sandboxVars, toolVars, retryVars>>

MemDelete ==
    /\ mem_pc = "idle"
    /\ \E key \in DeleteKeys, category \in MemCategories \cup {None} :
        /\ mem_memories' = delete(mem_memories, key, category)
        /\ mem_last' = [op |-> "delete", ret |-> deleted(mem_memories, key, category)]
        /\ IF deleted(mem_memories, key, category) THEN SaveBegins
           ELSE UNCHANGED <<mem_file, mem_pc>>
    /\ UNCHANGED <<agentVars, sandboxVars, toolVars, retryVars>>

MemClearCategory ==
    /\ mem_pc = "idle"
    /\ \E category \in MemCategories :
        /\ mem_last' = [op |-> "clear_category", ret |-> HasKey(mem_memories, category)]
        /\ IF HasKey(mem_memories, category)
           THEN mem_memories' = DictDel(mem_memories, category) /\ SaveBegins
           ELSE UNCHANGED <<mem_memories, mem_file, mem_pc>>
    /\ UNCHANGED <<agentVars, sandboxVars, toolVars, retryVars>>

MemClearAll ==
    /\ mem_pc = "idle"
    /\ mem_memories' = <<>>
    /\ mem_last' = [op |-> "clear_all", ret |-> None]
    /\ SaveBegins
    /\ UNCHANGED <<agentVars, sandboxVars, toolVars, retryVars>>

\* write_text hands part of a long text to the file before the rest.
WriteTextFlushes ==
    /\ mem_pc = "writing"
    /\ mem_file.state = "empty"
    /\ mem_file' = [state |-> "partial", doc |-> <<>>]
    /\ UNCHANGED <<agentVars, sandboxVars, toolVars, retryVars, mem_memories, mem_pc, mem_last>>

\* write_text closes the file: the whole document is in it and _save returns.
WriteTextCloses ==
    /\ mem_pc = "writing"
    /\ mem_file' = [state |-> "complete", doc |-> json_data(mem_memories)]
    /\ mem_pc' = "idle"
    /\ UNCHANGED <<agentVars, sandboxVars, toolVars, retryVars, mem_memories, mem_last>>

\* The process ends, between calls or killed inside write_text; the file stays as it is.
ProcessExits ==
    /\ mem_pc # "off"
    /\ mem_memories' = <<>>
    /\ mem_pc' = "off"
    /\ mem_last' = [op |-> "exit", ret |-> mem_pc]
    /\ UNCHANGED <<agentVars, sandboxVars, toolVars, retryVars, mem_file>>

InitMemory ==
    /\ AgentInit({})
    /\ max_steps = 0
    /\ interactive = FALSE
    /\ token_limit = DefaultTokenLimit
    /\ SandboxIdle
    /\ ToolsIdle
    /\ RetryIdle /\ MemoryIdle

NextMemory ==
    \/ MemConstruct
    \/ MemAdd
    \/ MemDelete
    \/ MemClearCategory
    \/ MemClearAll
    \/ WriteTextFlushes
    \/ WriteTextCloses
    \/ ProcessExits

SpecMemory == InitMemory /\ [][NextMemory]_vars

\* ---- C21 ----
\* What an instance holds: its categories, each with its list of items.
Held(memories) == {<<memories[i].k, memories[i].v>> : i \in DOMAIN memories}
NonEmpty(memories) == {h \in Held(memories) : h[2] # <<>>}

\* C21: whenever the instance is between calls, a fresh RepositoryMemory constructed on
\* the same repository path holds exactly the same categories, keys and values.
C21_FreshInstanceEqual ==
    mem_pc = "idle" => Held(_load(mem_file)) = Held(mem_memories)

\* C21 for the categories that hold at least one item.
C21_SameNonEmptyCategories ==
    mem_pc = "idle" => NonEmpty(_load(mem_file)) = NonEmpty(mem_memories)

\* C21 for every category other than "metadata", empty ones left aside.
C21_OutsideMetadata ==
    mem_pc = "idle" =>
        {h \in NonEmpty(_load(mem_file)) : h[1] # "metadata"}
            = {h \in NonEmpty(mem_memories) : h[1] # "metadata"}

\* ---- C22 ----
\* C22: a reader of the memory file at any moment finds a complete document (or, before
\* the first save, no file), never an empty or partially written one.
C22_ReaderSeesCompleteDocument ==
    mem_file.state \in {"absent", "complete"}

\* ======================================================================
\* The agent loop, continued: budget check, summarization, gate, history
\* ======================================================================

\* ---- C23 ----
SummaryCallDue == estimate_tokens(messages) > token_limit /\ ~skip

\* C23: the budget check runs before every main model call; the summary call is made
\* only when the estimate is strictly above token_limit with the skip flag clear, and
\* always then (given the four messages summarization needs); a successful summary sets
\* the flag; a set flag makes the next check, and only that one, pass straight to the
\* model call and is cleared by it; a successful summary is never followed by another
\* before two main model calls have been made.
C23_BudgetCheckProtocol ==
    /\ [](pc = "call_llm" => lastEvent \in {"BudgetCheck", "SummaryReturns", "SummaryFails"})
    /\ [](pc = "summarizing" => SummaryCallDue)
    /\ [][(pc = "loop" /\ pc' \in {"call_llm", "summarizing"}) =>
            /\ ~skip'
            /\ messages' = messages
            /\ (pc' = "summarizing") <=> (SummaryCallDue /\ Len(messages) >= 4)]_vars
    /\ [][lastEvent' = "SummaryReturns" => skip' /\ sinceSummary = 2]_vars
    /\ [][skip' # skip => IF skip THEN pc = "loop" ELSE lastEvent' = "SummaryReturns"]_vars

\* A second summary call is in flight, the first one's summary still in the history.
C23_Witness ==
    /\ pc = "summarizing"
    /\ Len(messages) >= 4
    /\ messages[2].content = SummaryHeader \o SummaryText
    /\ sinceSummary = 2

\* A check was suppressed by the flag although the estimate is above the limit.
C23_SuppressedCase ==
    /\ pc = "call_llm"
    /\ lastEvent = "BudgetCheck"
    /\ sinceSummary = 1
    /\ estimate_tokens(messages) > token_limit
    /\ Len(messages) >= 4

\* ---- C24 ----
\* C24: a successful summarization happens only on a history of at least four messages
\* and leaves exactly the first message, one system message holding the summary, and
\* the last two messages as they were and in order; on a shorter history the budget
\* check goes on to the main model call with no summary call and the history untouched.
C24_SummaryShape ==
    /\ [](pc = "summarizing" => Len(messages) >= 4)
    /\ [][lastEvent' = "SummaryReturns" =>
            /\ Len(messages') = 4
            /\ messages'[1] = messages[1]
            /\ messages'[2].role = "system"
            /\ messages'[2].content = SummaryHeader \o SummaryText
            /\ messages'[3] = messages[Len(messages) - 1]
            /\ messages'[4] = messages[Len(messages)]]_vars
    /\ [][(pc = "loop" /\ Len(messages) < 4 /\ LoopContinues(step, max_steps)) =>
            pc' = "call_llm" /\ messages' = messages]_vars

\* A summary has just replaced a history of more than four messages.
C24_Witness ==
    /\ lastEvent = "SummaryReturns"
    /\ Len(messages) = 4
    /\ messages[3].role = "assistant"
    /\ messages[4].role = "tool"

\* The estimate is above the limit and the history too short: no summary call.
C24_ShortCase ==
    /\ lastEvent = "BudgetCheck"
    /\ pc = "call_llm"
    /\ sinceSummary = 2
    /\ Len(messages) = 3
    /\ estimate_tokens(messages) > token_limit

\* ---- C25 ----
\* C25: when the summary call fails, the history is exactly what it was, the skip flag
\* stays clear, run() has not returned or raised, and the next thing the loop does is
\* the main model call.
C25_SummaryFailureAbsorbed ==
    [][lastEvent' = "SummaryFails" =>
        /\ pc = "summarizing"
        /\ messages' = messages
        /\ ~skip'
        /\ result' = NoResult
        /\ pc' = "call_llm"]_vars

\* The summary call has failed and the main call is about to be made with a history
\* that is still above the limit.
C25_Witness ==
    /\ lastEvent = "SummaryFails"
    /\ pc = "call_llm"
    /\ ~skip
    /\ Len(messages) >= 4
    /\ estimate_tokens(messages) > token_limit

\* ---- C26 ----
GateAnswers == {"yes", "Exception"}

\* C26: within one run(), in interactive mode every finished round of tool execution is
\* followed by one call of the gate, made with all the round's results in the history
\* and before the next model call, and a further round starts only after the gate has
\* returned true; in non-interactive mode the gate is never called.
C26_GateOncePerStep ==
    /\ [](pc = "confirm" =>
            /\ interactive
            /\ lastEvent = "ToolsDone"
            /\ ResultsRecorded(messages, pending, Len(pending)))
    /\ [](~interactive => lastEvent \notin ConfirmOutcomes)
    /\ [][(pc = "tools" /\ idx > Len(pending)) => (interactive <=> pc' = "confirm")]_vars
    /\ [][(pc = "confirm" /\ pc' # "confirm") => lastEvent' \in ConfirmOutcomes]_vars
    /\ [][(interactive /\ step' = step + 1) =>
            pc = "confirm" /\ lastEvent' \in GateAnswers]_vars
    /\ [](interactive /\ pc # "idle" => toolRounds \in {step, step + 1})
    /\ [](interactive /\ pc = "call_llm" => toolRounds = step)

\* The gate is being asked for the second time in a run: one round, a positive answer,
\* a second round with its results recorded.
C26_Witness ==
    /\ interactive
    /\ pc = "confirm"
    /\ toolRounds = 2
    /\ step = 1
    /\ ResultsRecorded(messages, pending, Len(pending))

\* A non-interactive run has executed two rounds.
C26_NonInteractiveCase ==
    /\ ~interactive
    /\ toolRounds = 2
    /\ step = 2

\* ---- C29 ----
SystemNote == "note"

\* Agent.add_system_message, called by the embedding program between two runs; it adds
\* its note when the history does not hold it.
AddSystemMessage ==
    /\ lastEvent' = "AddSystemMessage"
    /\ pc = "idle"
    /\ userMsgs = runs
    /\ runs >= 1
    /\ \A i \in DOMAIN messages : messages[i].content # SystemNote
    /\ messages' = Append(messages, Message("system", SystemNote, <<>>, NoId, ""))
    /\ UNCHANGED <<config, sinceSummary, skip, pc, step, pending, idx, result, proc, nextId,
                   runs, userMsgs, mainCalls, toolRounds, execLog, deviated>>

NextHistory ==
    \/ Next
    \/ AddSystemMessage

\* The agent with every operation that touches the history, its token_limit small
\* enough for summaries to happen.
InitHistory == Init /\ token_limit = SmallTokenLimit

SpecHistory == InitHistory /\ [][NextHistory]_vars

IsPrefix(s, t) == Len(s) <= Len(t) /\ SubSeq(t, 1, Len(s)) = s

\* C29: the history always begins with the system message of construction, and every
\* step other than a successful summarization leaves the messages already present in
\* place, unaltered and in order, adding new ones only at the end.
C29_AppendOnly ==
    /\ [](Len(messages) >= 1 /\ messages[1] = Message("system", SystemPrompt, <<>>, NoId, ""))
    /\ [][lastEvent' # "SummaryReturns" => IsPrefix(messages, messages')]_vars

\* A history that has been summarized and appended to since, system note included.
C29_Witness ==
    /\ Len(messages) > 4
    /\ messages[2].content = SummaryHeader \o SummaryText
    /\ \E i \in DOMAIN messages : messages[i].content = SystemNote
    /\ \E i \in DOMAIN messages : messages[i].role = "tool"
    /\ lastEvent = "LLMFails"

\* ---- C27 ----
\* A result is well formed: no error on success; on failure an error and no output.
WellFormed(r) ==
    IF r.success THEN r.error = None
    ELSE r.error # None /\ r.content = ""

\* C27: every ToolResult a tool has returned is well formed.
C27_ResultsWellFormed ==
    \A i \in DOMAIN tl_calls : WellFormed(tl_calls[i].result)

\* C27 for every tool but bash, and for the results the dispatcher builds itself.
C27_OtherToolsWellFormed ==
    /\ \A i \in DOMAIN tl_calls :
         tl_calls[i].tool # "bash" => WellFormed(tl_calls[i].result)
    /\ \A name \in ToolNames(tools) : WellFormed(UnknownToolResult(name))
    /\ WellFormed(FaultResult("boom"))

\* C27 for bash commands that the sandbox denies or that exit with status 0.
C27_BashDeniedOrSucceeded ==
    \A i \in DOMAIN tl_calls :
        (tl_calls[i].tool = "bash" /\ (tl_calls[i].effects = {} \/ tl_calls[i].result.success))
            => WellFormed(tl_calls[i].result)

\* ---- C28 ----
ValidStatuses == {"pending", "in_progress", "completed"}

\* C28: every entry TodoWrite holds or has persisted has one of the three statuses, and a
\* call with an entry whose status is missing or not one of them fails and writes
\* nothing.
C28_NoCoercion ==
    /\ \A i \in DOMAIN get_todos : get_todos[i].status \in ValidStatuses
    /\ \A i \in DOMAIN td_file.todos : td_file.todos[i].status \in ValidStatuses
    /\ \A i \in DOMAIN tl_calls :
         (tl_calls[i].tool = "TodoWrite" /\ tl_calls[i].arg.malformed)
             => ~tl_calls[i].result.success /\ tl_calls[i].effects = {}

\* C28, its second half alone: a call with a malformed entry fails.
C28_MalformedRejected ==
    \A i \in DOMAIN tl_calls :
        (tl_calls[i].tool = "TodoWrite" /\ tl_calls[i].arg.malformed)
            => ~tl_calls[i].result.success

\* ---- C30 ----
\* The wrapper has raised RetryError.
RetryErrorRaised == rt_pc = "raised" /\ rt_outcome.kind = "RetryError"

\* C30: with retry enabled, whatever max_retries is, a RetryError is raised only after
\* the operation has been invoked at least once, and it carries the exception of the
\* last invocation.
C30_RetryErrorAfterInvocation ==
    (rt_config.enabled /\ RetryErrorRaised) =>
        /\ Len(Invocations(rt_log)) >= 1
        /\ rt_outcome.last_exception \in Exceptions

\* C30 for max_retries >= 1.
C30_PositiveMaxRetries ==
    (rt_config.enabled /\ rt_config.max_retries >= 1 /\ RetryErrorRaised) =>
        /\ Len(Invocations(rt_log)) >= 1
        /\ rt_outcome.last_exception \in Exceptions

====
